---- MODULE Spec2Model ----
(***************************************************************************)
(* Model of the trading agent's Execution Engine (src/engine.py): the     *)
(* simulated-trade and live-trade state machines, client-side SL/TP        *)
(* enforcement and the completed-trade buffers; of its Order Scheduler     *)
(* (src/order_scheduler.py) and of the daily-loss state machine and the    *)
(* checks of its Risk Manager (src/risk_management.py).                    *)
(*                                                                         *)
(* Units.  Prices are integers counted in ticks (one unit = tick_size =    *)
(* 0.25 index points), money is counted in cents (tick_value = 12.50 USD   *)
(* = 1250).  With prices on the tick grid the engine's float arithmetic    *)
(* is exact, so the integer arithmetic below computes the same values.     *)
(*                                                                         *)
(* Optional values (Python None, a missing dict key, a missing attribute)  *)
(* are sequences of length 0 or 1: None == <<>>, a value v is <<v>>.       *)
(***************************************************************************)
EXTENDS Integers, Sequences, FiniteSets, TLC

VARIABLES
    live_mode,                  \* mode the engine is driven in (live_mode argument of every call)
    now,                        \* the latest reading of datetime.utcnow()
    virtual_sl_ticks,           \* ExecutionEngine.virtual_sl_ticks
    virtual_tp_ticks,           \* ExecutionEngine.virtual_tp_ticks
    active_simulated_trade,     \* ExecutionEngine.active_simulated_trade (None or dict)
    total_simulated_pnl,        \* ExecutionEngine.total_simulated_pnl
    pending_sim_log_updates,    \* ExecutionEngine._pending_sim_log_updates
    next_trade_id,              \* next uuid.uuid4() to be drawn for a simulated trade
    active_live_trade_tracking, \* ExecutionEngine.active_live_trade_tracking (attribute absent or dict)
    live_positions,             \* ExecutionEngine.live_positions {contract_id: Position}, the
                                \* Position reduced to its quantity (the other fields are display data)
    active_orders,              \* ExecutionEngine.active_orders (order ids)
    pending_live_log_updates,   \* ExecutionEngine._pending_live_log_updates
    entry_calls,                \* _initiate_live_trade coroutines suspended in place_order_to_topstep
    exit_tasks,                 \* _send_exit_order_to_topstep tasks created by asyncio.create_task
    orders_placed,              \* number of calls of place_order_to_topstep so far
    next_order_id,              \* next order id the broker will hand out
    closes_submitted,           \* per trade (entry order id), the closing orders submitted so far
    live_log_appends,           \* number of records appended to _pending_live_log_updates so far
    rejection_reason,           \* the rejection_reason the engine stored in the signal of each entry request
    last_call,                  \* the latest call of an operation and how it ended
    scheduled_orders,           \* OrderScheduler.scheduled_orders {schedule_id: ScheduledOrder}
    next_schedule_id,           \* next uuid.uuid4() to be drawn for a schedule id
    scheduler_task,             \* OrderScheduler.scheduler_task: None, or the state of the task
    execution_tasks,            \* execute_trade tasks the sweep created by asyncio.create_task
    handovers,                  \* per schedule id, the execute_trade calls the scheduler made for it
    cancelled_orders,           \* schedule ids cancel_scheduled_trade removed from scheduled_orders
    risk_manager,               \* the RiskManager (None until it is constructed): its fields
                                \* max_initial_daily_loss, current_max_daily_loss, current_pnl
                                \* and cooldown_active
    breach_events,              \* number of breach events the RiskManager emitted so far (the
                                \* warning, the "RISK BREACH" notification, disable_trading())
    current_equity,             \* AccountManager.current_equity (None until the first poll)
    last_signal_time,           \* StrategyManager.last_signal_time (None until a signal is accepted)
    delta_history_len,          \* len(DeltaStrategy.delta_history), a deque of lookback_bars ratios
    bars,                       \* MarketStateEngine.bars: per interval, the closed bars, oldest first
    current_bar,                \* MarketStateEngine.current_bar: per interval, None or the open bar
    profile,                    \* SmartVolumeProfile.profile: its (price_level, volume) items in
                                \* the order the dict holds them, that of first insertion
    total_volume,               \* SmartVolumeProfile.total_volume
    trades,                     \* MarketStateEngine.trades: the tick buffer
    quotes,                     \* MarketStateEngine.quotes: its bid, ask and last
    depth                       \* MarketStateEngine.depth: the level of each position

vars == << live_mode, now, virtual_sl_ticks, virtual_tp_ticks,
           active_simulated_trade, total_simulated_pnl, pending_sim_log_updates,
           next_trade_id, active_live_trade_tracking, live_positions, active_orders,
           pending_live_log_updates, entry_calls, exit_tasks, orders_placed,
           next_order_id, closes_submitted, live_log_appends, rejection_reason, last_call,
           scheduled_orders, next_schedule_id, scheduler_task, execution_tasks,
           handovers, cancelled_orders, risk_manager, breach_events, current_equity,
           last_signal_time, delta_history_len, bars, current_bar, profile,
           total_volume, trades, quotes, depth >>

simVars == << active_simulated_trade, total_simulated_pnl, pending_sim_log_updates,
              next_trade_id >>

liveVars == << active_live_trade_tracking, live_positions, active_orders,
               pending_live_log_updates, entry_calls, exit_tasks, orders_placed,
               next_order_id, closes_submitted, live_log_appends, rejection_reason >>

configVars == << live_mode, virtual_sl_ticks, virtual_tp_ticks >>

schedulerVars == << scheduled_orders, next_schedule_id, scheduler_task, execution_tasks,
                    handovers, cancelled_orders >>

riskVars == << risk_manager, breach_events, current_equity >>

strategyVars == << last_signal_time, delta_history_len >>

barVars == << bars, current_bar >>

profileVars == << profile, total_volume >>

marketVars == << trades, quotes, depth >>

analysisVars == << strategyVars, barVars, profileVars, marketVars >>

-----------------------------------------------------------------------------
(* Bounds of the model *)

MaxTime == 1
MaxPrice == 4
MaxTicks == 1
MaxSize == 2
MaxSimTrades == 2
MaxOrders == 3
MaxSchedules == 3
MaxPnl == 4
MaxBreachEvents == 2
MaxEquitySteps == 6
MaxEvalSteps == 4
MaxBars == 2
MaxVolume == 3
MaxLevels == 4
MaxLevelVolume == 3
MaxTrades == 2

(* Program constants *)

tick_size == 1
tick_value == 1250
DummyEntryPrice == 4
MaxScheduledPerContract == 1
MarginPerContract == 5000
GenericMargin == 1000
cooldown_seconds == 60
MIN_CONFIDENCE_THRESHOLD == 85
lookback_bars == 20
ratio_threshold == 30
min_confidence == 50
BarsMaxlen == 200
resolution == 2
TradesMaxlen == 5000

-----------------------------------------------------------------------------
(* Values *)

None == << >>
Some(v) == << v >>
Val(o) == o[1]

\* the interval widths of the bars, in minutes
Intervals == { 1, 5, 15 }

BUY == "buy"
SELL == "sell"

Prices == 0 .. MaxPrice
Sizes == 1 .. MaxSize
TickCounts == 0 .. MaxTicks
\* contract_size of a live execute_trade call
LiveSizes == {MaxSize}
Contracts == {"ES"}
Strategies == {"ICT"}

\* (stop_loss_ticks, take_profit_ticks) of a signal: both given (the target twice as
\* far as the stop, or both 0), or one or both missing
TickPairs ==
    { << Some(a), Some(a + a) >> : a \in TickCounts }
        \cup { << None, None >>, << Some(MaxTicks), None >> }

\* models.TradeSignal: the fields the engine reads
TradeSignals ==
    { [ strategy |-> s, direction |-> d, contract_id |-> c, entry_price |-> e,
        stop_loss_ticks |-> t[1], take_profit_ticks |-> t[2] ] :
      s \in Strategies, d \in {BUY, SELL}, c \in Contracts, e \in {None, Some(2)},
      t \in TickPairs }

\* account_manager.get_current_market_snapshot()["quotes"]: the keys the engine reads
Quotes == [ mid_price : {None, Some(3)}, last : {None, Some(2)} ]

\* the snapshots an entry may read: it asks for one only if the signal has no price
SnapshotsRead(sig) ==
    IF sig.entry_price = None THEN Quotes ELSE { [ mid_price |-> None, last |-> None ] }

-----------------------------------------------------------------------------
(* Pure helpers of the engine *)

\* direction_multiplier = 1 if direction == TradeDirection.BUY else -1
DirectionMultiplier(direction) == IF direction = BUY THEN 1 ELSE -1

\* snapshot.get("quotes", {}).get("mid_price", snapshot.get("quotes", {}).get("last", 0.0))
SnapshotPrice(q) ==
    IF q.mid_price # None THEN Val(q.mid_price)
    ELSE IF q.last # None THEN Val(q.last)
    ELSE 0

\* (current_price - entry_price) * direction_multiplier * tick_value / tick_size * size
PnlUsd(current_price, entry_price, direction, size) ==
    ((((current_price - entry_price) * DirectionMultiplier(direction)) * tick_value)
        \div tick_size) * size

\* the exit decision with the two checks in the other order, stop-loss first
ExitDecisionStopFirst(direction, current_price, target, stop) ==
    IF direction = BUY
    THEN IF current_price <= stop THEN Some("SL Hit")
         ELSE IF current_price >= target THEN Some("TP Hit")
         ELSE None
    ELSE IF current_price >= stop THEN Some("SL Hit")
         ELSE IF current_price <= target THEN Some("TP Hit")
         ELSE None

\* the TP-before-SL decision of both price handlers: None, "TP Hit" or "SL Hit"
ExitDecision(direction, current_price, target, stop) ==
    IF direction = BUY
    THEN IF current_price >= target THEN Some("TP Hit")
         ELSE IF current_price <= stop THEN Some("SL Hit")
         ELSE None
    ELSE IF current_price <= target THEN Some("TP Hit")
         ELSE IF current_price >= stop THEN Some("SL Hit")
         ELSE None

\* models.TradeRecord(...) as the engine calls it, without trade_id: the dataclass
\* then runs the trade_id default factory, lambda: str(uuid.uuid4()).  models.py
\* never imports uuid, so the factory raises NameError and no record is built.
TradeRecordDefaultsResolve == FALSE

TradeRecord(trade) ==
    [ symbol |-> trade.contract_id, entry_price |-> trade.entry_price,
      exit_price |-> Val(trade.exit_price), size |-> trade.size,
      direction |-> trade.direction, pnl |-> trade.closed_pnl,
      strategy |-> trade.strategy, exit_reason |-> Val(trade.exit_reason),
      entry_time |-> trade.open_time, exit_time |-> Val(trade.exit_time) ]

\* the values datetime.utcnow() can return next: the wall clock does not run backwards
UtcNow == now .. MaxTime

Call(op, result) == [ op |-> op, result |-> result ]

-----------------------------------------------------------------------------
(* Simulated trades *)

\* What _initiate_simulated_trade reads of its signal: it never looks at the
\* signal's stop_loss_ticks and take_profit_ticks.
SimSignalFields(sig) ==
    [ strategy |-> sig.strategy, direction |-> sig.direction,
      contract_id |-> sig.contract_id, entry_price |-> sig.entry_price ]

SimSignals == { SimSignalFields(sig) : sig \in TradeSignals }

\* get_active_trade(live_mode=False) without the look at the trade slot
GetActiveTradeSimSlotIgnored == None

\* get_active_trade(live_mode=False)
GetActiveTradeSim ==
    IF active_simulated_trade # None /\ Val(active_simulated_trade).status = "OPEN"
    THEN active_simulated_trade
    ELSE None

\* the dict _initiate_simulated_trade stores
NewSimulatedTrade(sig, size, q, utcnow) ==
    LET fromSnapshot == SnapshotPrice(q)
        entry_price == IF sig.entry_price # None THEN Val(sig.entry_price)
                       ELSE IF fromSnapshot = 0 THEN DummyEntryPrice
                       ELSE fromSnapshot
        dm == DirectionMultiplier(sig.direction)
    IN  [ id |-> next_trade_id, contract_id |-> sig.contract_id,
          direction |-> sig.direction, size |-> size, entry_price |-> entry_price,
          open_time |-> utcnow, status |-> "OPEN",
          stop_price |-> entry_price - (virtual_sl_ticks * tick_size * dm),
          target_price |-> entry_price + (virtual_tp_ticks * tick_size * dm),
          pnl_value |-> 0, closed_pnl |-> 0, exit_price |-> None,
          exit_time |-> None, strategy |-> sig.strategy, exit_reason |-> None ]

\* execute_trade(trade_signal, live_mode=False, contract_size) -> _initiate_simulated_trade
\* when it returns at its check, before it reads anything of the signal
InitiateSimulatedTradeSkipped ==
    /\ ~live_mode
    /\ GetActiveTradeSim # None
    /\ last_call' = Call("execute_trade", "skipped")
    /\ UNCHANGED << schedulerVars, riskVars, analysisVars >>
    /\ UNCHANGED << configVars, now, simVars, liveVars >>

\* execute_trade(trade_signal, live_mode=False, contract_size) -> _initiate_simulated_trade
\* when it passes its check
InitiateSimulatedTrade(sig, size, q, utcnow) ==
    /\ ~live_mode
    /\ GetActiveTradeSim = None
    /\ next_trade_id < MaxSimTrades
    /\ active_simulated_trade' = Some(NewSimulatedTrade(sig, size, q, utcnow))
    /\ now' = utcnow
    /\ next_trade_id' = next_trade_id + 1
    /\ last_call' = Call("execute_trade", "entered")
    /\ UNCHANGED << schedulerVars, riskVars, analysisVars >>
    /\ UNCHANGED << configVars, liveVars, total_simulated_pnl, pending_sim_log_updates >>

\* the readings of datetime.utcnow() a simulated price update can make: it reads the
\* clock only when the price closes the trade
ExitClock(current_price) ==
    IF /\ active_simulated_trade # None
       /\ Val(active_simulated_trade).status = "OPEN"
       /\ ExitDecision(Val(active_simulated_trade).direction, current_price,
                       Val(active_simulated_trade).target_price,
                       Val(active_simulated_trade).stop_price) # None
    THEN UtcNow
    ELSE {now}

\* update_price(current_price, live_mode=False) -> _update_simulated_trade_price
UpdateSimulatedTradePrice(current_price, utcnow) ==
    /\ ~live_mode
    /\ IF active_simulated_trade = None \/ Val(active_simulated_trade).status # "OPEN"
       THEN /\ last_call' = Call("update_price", "idle")
            /\ UNCHANGED << simVars, now >>
       ELSE LET trade == Val(active_simulated_trade)
                pnl == PnlUsd(current_price, trade.entry_price, trade.direction, trade.size)
                exit_reason == ExitDecision(trade.direction, current_price,
                                            trade.target_price, trade.stop_price)
                closed == [ trade EXCEPT !.pnl_value = pnl, !.closed_pnl = pnl,
                                         !.exit_price = Some(current_price),
                                         !.exit_time = Some(utcnow), !.status = "CLOSED",
                                         !.exit_reason = exit_reason ]
            IN  IF exit_reason = None
                THEN /\ active_simulated_trade' = Some([ trade EXCEPT !.pnl_value = pnl ])
                     /\ last_call' = Call("update_price", "updated")
                     /\ UNCHANGED << total_simulated_pnl, pending_sim_log_updates,
                                     next_trade_id, now >>
                ELSE /\ total_simulated_pnl' = total_simulated_pnl + pnl
                     /\ now' = utcnow
                     /\ IF TradeRecordDefaultsResolve
                        THEN /\ pending_sim_log_updates' =
                                    Append(pending_sim_log_updates, TradeRecord(closed))
                             /\ active_simulated_trade' = None
                             /\ last_call' = Call("update_price", "closed")
                        ELSE \* NameError leaves _update_simulated_trade_price at line 341
                             /\ pending_sim_log_updates' = pending_sim_log_updates
                             /\ active_simulated_trade' = Some(closed)
                             /\ last_call' = Call("update_price", "NameError")
                     /\ UNCHANGED next_trade_id
    /\ UNCHANGED << schedulerVars, riskVars, analysisVars >>
    /\ UNCHANGED << configVars, liveVars >>

\* get_trade_log_and_clear(live_mode=False)
GetTradeLogAndClearSim ==
    /\ ~live_mode
    /\ pending_sim_log_updates' = << >>
    /\ UNCHANGED << schedulerVars, riskVars, analysisVars >>
    /\ UNCHANGED << configVars, now, liveVars, active_simulated_trade,
                    total_simulated_pnl, next_trade_id, last_call >>

\* reset_pnl_and_trades(live_mode=False)
ResetPnlAndTradesSim ==
    /\ ~live_mode
    /\ total_simulated_pnl' = 0
    /\ active_simulated_trade' = None
    /\ pending_sim_log_updates' = << >>
    /\ UNCHANGED << schedulerVars, riskVars, analysisVars >>
    /\ UNCHANGED << configVars, now, liveVars, next_trade_id, last_call >>


-----------------------------------------------------------------------------
(* Live trades *)

NoPositions == [ c \in Contracts |-> None ]

\* Position.quantity as the account feed reports it
Quantities == 0 .. MaxSize

Abs(n) == IF n < 0 THEN 0 - n ELSE n

\* the statuses get_active_trade(live_mode=True) does not count as active
InactiveLiveStatuses ==
    { "CLOSING_PENDING", "CLOSING_ORDER_SENT", "EXIT_FILLED_AWAITING_POSITION",
      "EXIT_FAILED" }

\* get_active_trade(live_mode=True): the composite view, or None
GetActiveTradeLive ==
    IF /\ active_live_trade_tracking # None
       /\ Val(active_live_trade_tracking).status \notin InactiveLiveStatuses
    THEN LET tracking == Val(active_live_trade_tracking)
             position == live_positions[tracking.contract_id]
         IN  IF position # None /\ Val(position).quantity # 0
             THEN Some([ contract_id |-> tracking.contract_id,
                         size |-> Abs(Val(position).quantity),
                         stop_price |-> tracking.stop_loss_price,
                         target_price |-> tracking.take_profit_price ])
             ELSE None
    ELSE None

\* expected_entry_price taken from the market snapshot whatever the signal carries
ExpectedEntryPriceFromSnapshot(sig, q) == SnapshotPrice(q)

\* expected_entry_price of _initiate_live_trade
ExpectedEntryPrice(sig, q) ==
    IF sig.entry_price # None THEN Val(sig.entry_price) ELSE SnapshotPrice(q)

\* the guard under which _initiate_live_trade installs the tracking dict
CanSetLiveSlTp(sig, q) ==
    /\ ExpectedEntryPrice(sig, q) > 0
    /\ sig.stop_loss_ticks # None
    /\ sig.take_profit_ticks # None

\* the dict _initiate_live_trade stores in active_live_trade_tracking, without
\* open_time, which the engine never reads again
NewLiveTradeTracking(sig, size, q, order_id) ==
    LET expected == ExpectedEntryPrice(sig, q)
        dm == DirectionMultiplier(sig.direction)
    IN  [ contract_id |-> sig.contract_id, entry_order_id |-> order_id,
          direction |-> sig.direction, size |-> size, entry_price |-> None,
          stop_loss_price |-> expected - (Val(sig.stop_loss_ticks) * tick_size * dm),
          take_profit_price |-> expected + (Val(sig.take_profit_ticks) * tick_size * dm),
          status |-> "PENDING_ENTRY_FILL", realized_pnl |-> 0,
          strategy |-> sig.strategy, exit_order_id |-> None, exit_reason |-> None ]

\* What a suspended _initiate_live_trade has read of its signal so far.  The
\* coroutine reads entry_price, stop_loss_ticks and take_profit_ticks from the
\* signal object only after place_order_to_topstep returned; they enter the model
\* where they are read.
SignalHead(sig) ==
    [ strategy |-> sig.strategy, direction |-> sig.direction,
      contract_id |-> sig.contract_id ]

SignalHeads == { SignalHead(sig) : sig \in TradeSignals }

\* the signals a suspended call may turn out to carry
SignalsOf(head) == { sig \in TradeSignals : SignalHead(sig) = head }

\* the check at the head of _initiate_live_trade
LiveEntryBlocked == GetActiveTradeLive # None

\* what _initiate_live_trade does to the engine when it returns at its check
LiveEntrySkippedInEngine ==
    /\ LiveEntryBlocked
    /\ last_call' = Call("execute_trade", "skipped")
    /\ UNCHANGED << configVars, simVars, liveVars >>

\* what _initiate_live_trade does to the engine when it passes its check, up to its
\* suspension in place_order_to_topstep
LiveEntryBegunInEngine(signal, size) ==
    /\ ~LiveEntryBlocked
    /\ orders_placed < MaxOrders
    /\ orders_placed' = orders_placed + 1
    /\ entry_calls' = entry_calls \cup
           { [ signal |-> signal, size |-> size, request |-> orders_placed + 1 ] }
    /\ last_call' = Call("execute_trade", "placing")
    /\ UNCHANGED << configVars, simVars, active_live_trade_tracking, live_positions,
                    active_orders, pending_live_log_updates, exit_tasks, next_order_id,
                    closes_submitted, live_log_appends, rejection_reason >>

\* execute_trade(trade_signal, live_mode=True, contract_size) -> _initiate_live_trade
\* when it returns at its check, before it reads anything of the signal
InitiateLiveTradeSkipped ==
    /\ live_mode
    /\ LiveEntrySkippedInEngine
    /\ UNCHANGED << schedulerVars, riskVars, analysisVars, now >>

\* execute_trade(trade_signal, live_mode=True, contract_size) -> _initiate_live_trade
\* when it passes its check, up to its suspension in place_order_to_topstep
InitiateLiveTradeBegin(signal, size) ==
    /\ live_mode
    /\ LiveEntryBegunInEngine(signal, size)
    /\ UNCHANGED << schedulerVars, riskVars, analysisVars, now >>

\* _initiate_live_trade from the return of place_order_to_topstep with an order id
\* to its end
InitiateLiveTradeAccepted(call, sig, q) ==
    /\ live_mode
    /\ call \in entry_calls
    /\ SignalHead(sig) = call.signal
    /\ entry_calls' = entry_calls \ {call}
    /\ active_orders' = active_orders \cup {next_order_id}
    /\ next_order_id' = next_order_id + 1
    /\ IF CanSetLiveSlTp(sig, q)
       THEN /\ active_live_trade_tracking' =
                   Some(NewLiveTradeTracking(sig, call.size, q, next_order_id))
            /\ last_call' = Call("execute_trade", "tracking")
       ELSE /\ UNCHANGED active_live_trade_tracking
            /\ last_call' = Call("execute_trade", "sl_tp_not_set")
    /\ UNCHANGED << schedulerVars, riskVars, analysisVars >>
    /\ UNCHANGED << configVars, now, simVars, live_positions, pending_live_log_updates,
                    exit_tasks, orders_placed, closes_submitted, live_log_appends, rejection_reason >>

\* the rejection_reason _initiate_live_trade stores in the signal of a failed order
OrderFailedReason == "Live order failed: No order ID returned."

\* _initiate_live_trade from the return of place_order_to_topstep with None to its
\* end, leaving the signal as it was
InitiateLiveTradeFailedSilently(call) ==
    /\ live_mode
    /\ call \in entry_calls
    /\ entry_calls' = entry_calls \ {call}
    /\ last_call' = Call("execute_trade", "order_failed")
    /\ UNCHANGED << schedulerVars, riskVars, analysisVars >>
    /\ UNCHANGED << configVars, now, simVars, active_live_trade_tracking, live_positions,
                    active_orders, pending_live_log_updates, exit_tasks, orders_placed,
                    next_order_id, closes_submitted, live_log_appends, rejection_reason >>

\* _initiate_live_trade from the return of place_order_to_topstep with None to its end
InitiateLiveTradeFailed(call) ==
    /\ live_mode
    /\ call \in entry_calls
    /\ entry_calls' = entry_calls \ {call}
    /\ rejection_reason' =
           [ rejection_reason EXCEPT ![call.request] = Some(OrderFailedReason) ]
    /\ last_call' = Call("execute_trade", "order_failed")
    /\ UNCHANGED << schedulerVars, riskVars, analysisVars >>
    /\ UNCHANGED << configVars, now, simVars, active_live_trade_tracking, live_positions,
                    active_orders, pending_live_log_updates, exit_tasks, orders_placed,
                    next_order_id, closes_submitted, live_log_appends >>

\* close_direction of _update_live_trade_price
CloseDirection(direction) == IF direction = BUY THEN SELL ELSE BUY

\* the early returns of _update_live_trade_price without the test of the status
LivePriceCheckSkippedOnlyUntracked == active_live_trade_tracking = None

\* the entry-price test of _update_live_trade_price always passing
EntryPriceTakenAsKnown == FALSE

\* the early returns of _update_live_trade_price
LivePriceCheckSkipped ==
    \/ active_live_trade_tracking = None
    \/ Val(active_live_trade_tracking).status \notin {"OPEN", "PARTIAL_FILL"}

LiveEntryPriceUnknown == Val(active_live_trade_tracking).entry_price = None

\* the coroutine _update_live_trade_price hands to asyncio.create_task: its four
\* arguments, how far it has run, and (for the properties) the trade that made it
ExitTask(trade, exit_reason) ==
    [ contract_id |-> trade.contract_id, direction |-> CloseDirection(trade.direction),
      size |-> trade.size, exit_reason |-> exit_reason, stage |-> "created",
      request |-> 0, trade |-> trade.entry_order_id ]

\* update_price(current_price, live_mode=True) -> _update_live_trade_price
UpdateLiveTradePrice(current_price) ==
    /\ live_mode
    /\ IF LivePriceCheckSkipped
       THEN /\ last_call' = Call("update_price", "idle")
            /\ UNCHANGED liveVars
       ELSE IF LiveEntryPriceUnknown
       THEN /\ last_call' = Call("update_price", "waiting")
            /\ UNCHANGED liveVars
       ELSE LET trade == Val(active_live_trade_tracking)
                exit_reason == ExitDecision(trade.direction, current_price,
                                            trade.take_profit_price, trade.stop_loss_price)
            IN  /\ IF exit_reason # None
                   THEN /\ exit_tasks' = exit_tasks \cup {ExitTask(trade, Val(exit_reason))}
                        /\ active_live_trade_tracking' =
                               Some([ trade EXCEPT !.status = "CLOSING_PENDING" ])
                        /\ last_call' = Call("update_price", "exit_triggered")
                   ELSE /\ UNCHANGED << exit_tasks, active_live_trade_tracking >>
                        /\ last_call' = Call("update_price", "updated")
                /\ UNCHANGED << live_positions, active_orders, pending_live_log_updates,
                                entry_calls, orders_placed, next_order_id,
                                closes_submitted, live_log_appends, rejection_reason >>
    /\ UNCHANGED << schedulerVars, riskVars, analysisVars >>
    /\ UNCHANGED << configVars, now, simVars >>

\* _send_exit_order_to_topstep from its start to its suspension in place_order_to_topstep
SendExitOrderBegin(task) ==
    /\ live_mode
    /\ task \in exit_tasks
    /\ task.stage = "created"
    /\ orders_placed < MaxOrders
    /\ orders_placed' = orders_placed + 1
    /\ exit_tasks' = (exit_tasks \ {task}) \cup
           { [ task EXCEPT !.stage = "sent", !.request = orders_placed + 1 ] }
    /\ closes_submitted' = [ closes_submitted EXCEPT ![task.trade] = @ + 1 ]
    /\ UNCHANGED << schedulerVars, riskVars, analysisVars >>
    /\ UNCHANGED << configVars, now, simVars, active_live_trade_tracking, live_positions,
                    active_orders, pending_live_log_updates, entry_calls, next_order_id,
                    live_log_appends, rejection_reason, last_call >>

\* the new value of active_live_trade_tracking when the close order is answered
AfterExitOrder(task, accepted) ==
    IF active_live_trade_tracking = None THEN None
    ELSE IF accepted
    THEN Some([ Val(active_live_trade_tracking) EXCEPT
                  !.exit_order_id = Some(next_order_id),
                  !.exit_reason = Some(task.exit_reason),
                  !.status = "CLOSING_ORDER_SENT" ])
    ELSE Some([ Val(active_live_trade_tracking) EXCEPT !.status = "EXIT_ORDER_FAILED" ])

\* _send_exit_order_to_topstep from the return of place_order_to_topstep to its end
SendExitOrderResume(task, accepted) ==
    /\ live_mode
    /\ task \in exit_tasks
    /\ task.stage = "sent"
    /\ exit_tasks' = exit_tasks \ {task}
    /\ next_order_id' = IF accepted THEN next_order_id + 1 ELSE next_order_id
    /\ active_live_trade_tracking' = AfterExitOrder(task, accepted)
    /\ UNCHANGED << schedulerVars, riskVars, analysisVars >>
    /\ UNCHANGED << configVars, now, simVars, live_positions, active_orders,
                    pending_live_log_updates, entry_calls, orders_placed,
                    closes_submitted, live_log_appends, rejection_reason, last_call >>

\* the status a position update gives a trade that awaits its fill
FilledStatus(trade, quantity) ==
    IF Abs(quantity) >= trade.size THEN "OPEN" ELSE "PARTIAL_FILL"

\* onPositionUpdate(contractId, entryPrice, quantity) of the external account feed
OnPositionUpdate(contract_id, entry_price, quantity) ==
    /\ live_mode
    /\ live_positions' = [ live_positions EXCEPT ![contract_id] =
           Some([ quantity |-> quantity ]) ]
    /\ IF /\ active_live_trade_tracking # None
          /\ Val(active_live_trade_tracking).contract_id = contract_id
          /\ Val(active_live_trade_tracking).status \in {"PENDING_ENTRY_FILL", "PARTIAL_FILL"}
          /\ quantity # 0
       THEN active_live_trade_tracking' =
                Some([ Val(active_live_trade_tracking) EXCEPT
                         !.status = FilledStatus(Val(active_live_trade_tracking), quantity),
                         !.entry_price = IF entry_price # None THEN entry_price ELSE @ ])
       ELSE UNCHANGED active_live_trade_tracking
    /\ UNCHANGED << schedulerVars, riskVars, analysisVars >>
    /\ UNCHANGED << configVars, now, simVars, active_orders, pending_live_log_updates,
                    entry_calls, exit_tasks, orders_placed, next_order_id,
                    closes_submitted, live_log_appends, rejection_reason, last_call >>

\* get_trade_log_and_clear(live_mode=True)
GetTradeLogAndClearLive ==
    /\ live_mode
    /\ pending_live_log_updates' = << >>
    /\ UNCHANGED << schedulerVars, riskVars, analysisVars >>
    /\ UNCHANGED << configVars, now, simVars, active_live_trade_tracking, live_positions,
                    active_orders, entry_calls, exit_tasks, orders_placed, next_order_id,
                    closes_submitted, live_log_appends, rejection_reason, last_call >>

\* reset_pnl_and_trades(live_mode=True)
ResetPnlAndTradesLive ==
    /\ live_mode
    /\ live_positions' = NoPositions
    /\ active_orders' = {}
    /\ active_live_trade_tracking' = None
    /\ pending_live_log_updates' = << >>
    /\ UNCHANGED << schedulerVars, riskVars, analysisVars >>
    /\ UNCHANGED << configVars, now, simVars, entry_calls, exit_tasks, orders_placed,
                    next_order_id, closes_submitted, live_log_appends, rejection_reason, last_call >>

-----------------------------------------------------------------------------
(* Order Scheduler *)

\* the schedule ids uuid.uuid4() hands out, in the order they are drawn
ScheduleIds == 1 .. MaxSchedules

\* the contracts orders are scheduled for
ScheduledContracts == {"ES", "NQ"}

\* the trade signals handed to the scheduler
ScheduledSignals ==
    { [ strategy |-> "ICT", direction |-> x[1], contract_id |-> x[2],
        entry_price |-> Some(2), stop_loss_ticks |-> Some(MaxTicks),
        take_profit_ticks |-> Some(MaxTicks + MaxTicks) ] :
      x \in { << BUY, "ES" >>, << SELL, "ES" >>, << BUY, "NQ" >> } }

\* the execution_time argument of schedule_trade_execution: absent or a time
ExecutionTimes == {None} \cup { Some(t) : t \in 0 .. MaxTime }

\* models.ScheduledOrder as schedule_trade_execution builds it (order_type is
\* always MARKET, price and status keep their defaults)
ScheduledOrder(trade_signal, size, execution_time) ==
    [ contract_id |-> trade_signal.contract_id, direction |-> trade_signal.direction,
      size |-> size, execution_time |-> execution_time,
      original_trade_signal |-> trade_signal ]

\* the empty scheduled_orders dict
NoScheduledOrders == [ sid \in {} |-> None ]

\* a pop that leaves the dict as it is
PopAllKeepingOrders(orders, sids) == orders

\* dict.pop of each key in sids
PopAll(orders, sids) == [ sid \in (DOMAIN orders) \ sids |-> orders[sid] ]

\* self.scheduled_orders[schedule_id] = scheduled_order
Store(orders, schedule_id, scheduled_order) ==
    [ sid \in (DOMAIN orders) \cup {schedule_id} |->
        IF sid = schedule_id THEN scheduled_order ELSE orders[sid] ]

\* the arguments of one execution_engine.execute_trade(trade_signal=...,
\* live_mode=True, contract_size=...) call of the scheduler
Handover(trade_signal, contract_size) ==
    [ trade_signal |-> trade_signal, contract_size |-> contract_size ]

\* the handover of the sweep with the size of the order replaced by 1
SweepHandoverUnitSize(scheduled_order) ==
    Handover(scheduled_order.original_trade_signal, 1)

\* the handover the sweep makes for a due order
SweepHandover(scheduled_order) ==
    Handover(scheduled_order.original_trade_signal, scheduled_order.size)

\* the states of an asyncio task
RUNNING == "running"
CANCELLED == "cancelled"

\* execution_engine.execute_trade(trade_signal, live_mode=True, contract_size) up to
\* its return or its suspension in place_order_to_topstep: the engine's variables
ExecuteTradeLive(trade_signal, contract_size) ==
    \/ LiveEntrySkippedInEngine
    \/ LiveEntryBegunInEngine(SignalHead(trade_signal), contract_size)

\* start_scheduler_loop
StartSchedulerLoop ==
    /\ IF scheduler_task = None \/ scheduler_task = Some(CANCELLED)
       THEN /\ scheduler_task' = Some(RUNNING)
            /\ last_call' = Call("start_scheduler_loop", "started")
       ELSE /\ UNCHANGED scheduler_task
            /\ last_call' = Call("start_scheduler_loop", "already_running")
    /\ UNCHANGED << scheduled_orders, next_schedule_id, execution_tasks, handovers,
                    cancelled_orders >>
    /\ UNCHANGED << configVars, now, simVars, liveVars, riskVars, analysisVars >>

\* stop_scheduler_loop.  cancel() ends the sweep at its sleep (or before its first
\* step); "await self.scheduler_task" on the cancelled task then raises
\* CancelledError in stop_scheduler_loop, which does not catch it.
StopSchedulerLoop ==
    /\ IF scheduler_task # None
       THEN /\ scheduler_task' = Some(CANCELLED)
            /\ last_call' = Call("stop_scheduler_loop", "CancelledError")
       ELSE /\ UNCHANGED scheduler_task
            /\ last_call' = Call("stop_scheduler_loop", "returned")
    /\ UNCHANGED << scheduled_orders, next_schedule_id, execution_tasks, handovers,
                    cancelled_orders >>
    /\ UNCHANGED << configVars, now, simVars, liveVars, riskVars, analysisVars >>

\* the orders one pass of the sweep finds due at the time it reads
DueOrders(current_time) ==
    { sid \in DOMAIN scheduled_orders :
        Val(scheduled_orders[sid].execution_time) <= current_time }

\* the orders of a contract, taken to be the first one found only
OrdersOfContractFirstOnly(contract_id) ==
    LET all == { sid \in DOMAIN scheduled_orders :
                   scheduled_orders[sid].contract_id = contract_id }
    IN  { sid \in all : \A other \in all : sid <= other }

\* the orders of a contract, as cancel_scheduled_trade lists them
OrdersOfContract(contract_id) ==
    { sid \in DOMAIN scheduled_orders : scheduled_orders[sid].contract_id = contract_id }

\* One pass of _periodic_check_for_due_orders, from a wake-up to the next sleep.
\* The pass has no await: the due orders are collected, popped and handed to
\* execute_trade tasks in one step.  Every stored order carries its signal, so the
\* branch for a missing original_trade_signal is never taken.
PeriodicCheckForDueOrders(current_time) ==
    /\ scheduler_task = Some(RUNNING)
    /\ now' = current_time
    /\ LET due == DueOrders(current_time)
       IN  /\ scheduled_orders' = PopAll(scheduled_orders, due)
           /\ execution_tasks' = execution_tasks \cup
                  { [ schedule_id |-> sid, call |-> SweepHandover(scheduled_orders[sid]) ] :
                    sid \in due }
           /\ handovers' =
                  [ sid \in ScheduleIds |->
                      IF sid \in due
                      THEN Append(handovers[sid], SweepHandover(scheduled_orders[sid]))
                      ELSE handovers[sid] ]
    /\ last_call' = Call("_periodic_check_for_due_orders", "swept")
    /\ UNCHANGED << next_schedule_id, scheduler_task, cancelled_orders >>
    /\ UNCHANGED << configVars, simVars, liveVars, riskVars, analysisVars >>

\* an execute_trade task the sweep created, from its start to its return or its
\* suspension in place_order_to_topstep
ExecuteScheduledTrade(task) ==
    /\ task \in execution_tasks
    /\ execution_tasks' = execution_tasks \ {task}
    /\ ExecuteTradeLive(task.call.trade_signal, task.call.contract_size)
    /\ UNCHANGED << scheduled_orders, next_schedule_id, scheduler_task, handovers,
                    cancelled_orders >>
    /\ UNCHANGED << now, riskVars, analysisVars >>

\* the clock readings of schedule_trade_execution: it reads the clock only when it
\* is given an execution_time
ScheduleClock(execution_time) == IF execution_time = None THEN {now} ELSE UtcNow

\* the test for executing at once that looks at the presence of a time only
ExecuteImmediatelyOnlyUntimed(execution_time, utcnow) == execution_time = None

\* the test of schedule_trade_execution for executing at once
ExecuteImmediately(execution_time, utcnow) ==
    execution_time = None \/ Val(execution_time) <= utcnow

\* schedule_trade_execution(trade_signal, size, execution_time)
ScheduleTradeExecution(trade_signal, size, execution_time, utcnow) ==
    /\ next_schedule_id <= MaxSchedules
    /\ next_schedule_id' = next_schedule_id + 1
    /\ now' = utcnow
    /\ IF ExecuteImmediately(execution_time, utcnow)
       THEN /\ handovers' =
                   [ handovers EXCEPT ![next_schedule_id] =
                       Append(@, Handover(trade_signal, size)) ]
            /\ ExecuteTradeLive(trade_signal, size)
            /\ UNCHANGED scheduled_orders
       ELSE /\ scheduled_orders' =
                   Store(scheduled_orders, next_schedule_id,
                         ScheduledOrder(trade_signal, size, execution_time))
            /\ last_call' = Call("schedule_trade_execution", "scheduled")
            /\ UNCHANGED << configVars, simVars, liveVars, handovers >>
    /\ UNCHANGED << scheduler_task, execution_tasks, cancelled_orders, riskVars, analysisVars >>

\* cancel_scheduled_trade(contract_id)
CancelScheduledTrade(contract_id) ==
    /\ LET scheduled_to_cancel == OrdersOfContract(contract_id)
       IN  /\ scheduled_orders' = PopAll(scheduled_orders, scheduled_to_cancel)
           /\ cancelled_orders' = cancelled_orders \cup scheduled_to_cancel
           /\ last_call' =
                  Call("cancel_scheduled_trade",
                       IF scheduled_to_cancel # {} THEN "cancelled" ELSE "not_found")
    /\ UNCHANGED << next_schedule_id, scheduler_task, execution_tasks, handovers >>
    /\ UNCHANGED << configVars, now, simVars, liveVars, riskVars, analysisVars >>

\* prevent_over_trading(contract_id): TRUE when another order may be scheduled
PreventOverTrading(contract_id) ==
    Cardinality(OrdersOfContract(contract_id)) < MaxScheduledPerContract

-----------------------------------------------------------------------------
(* Risk Manager *)
(* Money of the Risk Manager is counted in whole dollars.  The daily PnL      *)
(* readings are multiples of 10 and the loss limits are even, so that         *)
(* pnl * 0.3 and limit * 0.5 are whole numbers and the integer arithmetic     *)
(* below computes what the float arithmetic of the code computes.             *)

\* the max_daily_loss argument the RiskManager is constructed with, of either sign
InitialLimits == { 0 - 20, 20, 40 }

\* the daily PnL: small losses and gains, and a gain large enough to lift the limit
PnlValues == { 10 * k : k \in (0 - MaxPnl) .. MaxPnl } \cup { 100 }

\* what api_client.get_account_pnl() can return: None, or the daily PnL
FetchedPnls == {None} \cup { Some(pnl) : pnl \in PnlValues }

\* the account values the account feed reports
Equities == { 0, MarginPerContract, MarginPerContract * MaxSize }

Max(a, b) == IF a >= b THEN a ELSE b

\* pnl * 0.3
TrailingShare(pnl) == (pnl * 3) \div 10

\* -abs(limit)
LossThreshold(limit) == 0 - Abs(limit)

\* -abs(limit) * 0.5
RecoveryThreshold(limit) == (LossThreshold(limit) * 5) \div 10

\* the RiskManager __init__ builds
NewRiskManager(max_daily_loss) ==
    [ max_initial_daily_loss |-> max_daily_loss,
      current_max_daily_loss |-> max_daily_loss,
      current_pnl |-> 0,
      cooldown_active |-> FALSE ]

\* current_max_daily_loss as a ratchet over the limit already stored
TrailingLimitRatcheted(max_initial_daily_loss, pnl) ==
    IF pnl > 0
    THEN Max(Val(risk_manager).current_max_daily_loss, TrailingShare(pnl))
    ELSE Val(risk_manager).current_max_daily_loss

\* current_max_daily_loss when a PnL that is not positive leaves the limit where
\* earlier gains put it
TrailingLimitKept(max_initial_daily_loss, pnl) ==
    IF pnl > 0 THEN Max(max_initial_daily_loss, TrailingShare(pnl))
    ELSE Val(risk_manager).current_max_daily_loss

\* current_max_daily_loss as check_daily_loss recomputes it for a PnL
TrailingLimit(max_initial_daily_loss, pnl) ==
    IF pnl > 0 THEN Max(max_initial_daily_loss, TrailingShare(pnl))
    ELSE max_initial_daily_loss

\* the test of check_daily_loss for a breached loss limit
LimitBreached(max_initial_daily_loss, pnl) ==
    pnl <= LossThreshold(TrailingLimit(max_initial_daily_loss, pnl))

\* the recovery test with the whole initial limit as its threshold
PnlRecoveredAboveLimit(max_initial_daily_loss, pnl) ==
    pnl > LossThreshold(max_initial_daily_loss)

\* the test of check_daily_loss for a recovered PnL
PnlRecovered(max_initial_daily_loss, pnl) ==
    pnl > RecoveryThreshold(max_initial_daily_loss)

\* cooldown_active after check_daily_loss when every breach sets it off and on again
CooldownAfterRetriggered(rm, pnl) ==
    IF LimitBreached(rm.max_initial_daily_loss, pnl) THEN ~rm.cooldown_active
    ELSE rm.cooldown_active /\ ~PnlRecovered(rm.max_initial_daily_loss, pnl)

\* cooldown_active after check_daily_loss has seen a PnL
CooldownAfter(rm, pnl) ==
    IF LimitBreached(rm.max_initial_daily_loss, pnl) THEN TRUE
    ELSE rm.cooldown_active /\ ~PnlRecovered(rm.max_initial_daily_loss, pnl)

\* the breach events one check emits when it emits them for every breaching PnL
BreachEventsEmittedAlways(rm, pnl) ==
    IF LimitBreached(rm.max_initial_daily_loss, pnl) THEN 1 ELSE 0

\* the breach events one check emits: the warning, the "RISK BREACH" notification
\* and the disable_trading() request go out together, on the transition only
BreachEventsEmitted(rm, pnl) ==
    IF LimitBreached(rm.max_initial_daily_loss, pnl) /\ ~rm.cooldown_active THEN 1 ELSE 0

\* how a check that fetched a PnL ends: "breach" when it emits the breach event,
\* "in_breach" in the breach branch with the cooldown already active, "recovered"
\* when it clears the cooldown, "checked" when it logs nothing
CheckOutcome(rm, pnl) ==
    IF LimitBreached(rm.max_initial_daily_loss, pnl)
    THEN IF rm.cooldown_active THEN "in_breach" ELSE "breach"
    ELSE IF rm.cooldown_active /\ PnlRecovered(rm.max_initial_daily_loss, pnl)
         THEN "recovered"
         ELSE "checked"

\* RiskManager(api_client, max_daily_loss, ...)
ConstructRiskManager(max_daily_loss) ==
    /\ risk_manager = None
    /\ risk_manager' = Some(NewRiskManager(max_daily_loss))
    /\ last_call' = Call("RiskManager", "constructed")
    /\ UNCHANGED << breach_events, current_equity >>
    /\ UNCHANGED << configVars, now, simVars, liveVars, schedulerVars, analysisVars >>

\* check_daily_loss when get_account_pnl() returns fetched_pnl
CheckDailyLoss(fetched_pnl) ==
    /\ risk_manager # None
    /\ IF fetched_pnl = None
       THEN /\ last_call' = Call("check_daily_loss", "skipped")
            /\ UNCHANGED << risk_manager, breach_events >>
       ELSE LET rm == Val(risk_manager)
                pnl == Val(fetched_pnl)
                emitted == BreachEventsEmitted(rm, pnl)
            IN  /\ breach_events + emitted <= MaxBreachEvents
                /\ risk_manager' =
                       Some([ rm EXCEPT
                                !.current_pnl = pnl,
                                !.current_max_daily_loss =
                                    TrailingLimit(rm.max_initial_daily_loss, pnl),
                                !.cooldown_active = CooldownAfter(rm, pnl) ])
                /\ breach_events' = breach_events + emitted
                /\ last_call' = Call("check_daily_loss", CheckOutcome(rm, pnl))
    /\ UNCHANGED current_equity
    /\ UNCHANGED << configVars, now, simVars, liveVars, schedulerVars, analysisVars >>

\* TopstepClientFacade.get_account_pnl() over an account manager that holds
\* current_daily_pnl: 0.0 while it holds none
GetAccountPnl(current_daily_pnl) ==
    IF current_daily_pnl = None THEN 0 ELSE Val(current_daily_pnl)

\* check_daily_loss with the facade as its api_client
CheckDailyLossOfAccount(current_daily_pnl) ==
    CheckDailyLoss(Some(GetAccountPnl(current_daily_pnl)))

\* reset_daily_pnl_tracking
ResetDailyPnlTracking ==
    /\ risk_manager # None
    /\ risk_manager' =
           Some([ Val(risk_manager) EXCEPT
                    !.current_pnl = 0,
                    !.current_max_daily_loss = Val(risk_manager).max_initial_daily_loss,
                    !.cooldown_active = FALSE ])
    /\ last_call' = Call("reset_daily_pnl_tracking", "reset")
    /\ UNCHANGED << breach_events, current_equity >>
    /\ UNCHANGED << configVars, now, simVars, liveVars, schedulerVars, analysisVars >>

\* the account feed reports the account value
AccountValueReported(equity) ==
    /\ current_equity' = Some(equity)
    /\ last_call' = Call("account_update", "equity")
    /\ UNCHANGED << risk_manager, breach_events >>
    /\ UNCHANGED << configVars, now, simVars, liveVars, schedulerVars, analysisVars >>

\* api_client.get_account_balance(): 0.0 while the account value is unknown
GetAccountBalance == IF current_equity = None THEN 0 ELSE Val(current_equity)

\* api_client.get_margin_requirement(contract_id, size): the facade's fixed margins
GetMarginRequirement(contract_id, size) ==
    IF contract_id = "ES" THEN size * MarginPerContract ELSE size * GenericMargin

\* the margin check rejecting also a balance that just covers the requirement
VerifyMarginRiskStrict(trade_signal, size) ==
    ~(GetAccountBalance <= GetMarginRequirement(trade_signal.contract_id, size))

\* verify_margin_risk(trade_signal, size)
VerifyMarginRisk(trade_signal, size) ==
    ~(GetAccountBalance < GetMarginRequirement(trade_signal.contract_id, size))

\* ensure_risk_limits()
EnsureRiskLimits == ~Val(risk_manager).cooldown_active

\* validate_trade_eligibility(trade_signal, current_trade_size)
ValidateTradeEligibility(trade_signal, current_trade_size) ==
    /\ EnsureRiskLimits
    /\ ~Val(risk_manager).cooldown_active
    /\ VerifyMarginRisk(trade_signal, current_trade_size)

\* trade_signal.rejection_reason after validate_trade_eligibility: None when the
\* call sets none, else the text it sets
RejectionReason(trade_signal, current_trade_size) ==
    IF ~EnsureRiskLimits
    THEN Some("Overall risk limits breached or cooldown active.")
    ELSE IF Val(risk_manager).cooldown_active
         THEN Some("Trading cooldown active.")
         ELSE IF ~VerifyMarginRisk(trade_signal, current_trade_size)
              THEN Some("Insufficient margin. Trade rejected.")
              ELSE None

\* a call of validate_trade_eligibility(trade_signal, current_trade_size): what it
\* returns and what it leaves in rejection_reason of the signal, which arrives
\* with no reason set
ValidateTradeEligibilityCall(trade_signal, current_trade_size) ==
    /\ risk_manager # None
    /\ last_call' =
           Call("validate_trade_eligibility",
                [ allowed |-> ValidateTradeEligibility(trade_signal, current_trade_size),
                  rejection_reason |-> RejectionReason(trade_signal, current_trade_size) ])
    /\ UNCHANGED << riskVars, configVars, now, simVars, liveVars, schedulerVars, analysisVars >>

(* Position sizing.  A confidence is counted in tenths (6 is 0.6), an equity in  *)
(* whole dollars; on the inputs below int(equity / 10000) and                     *)
(* int(base_size * effective_confidence) of the float arithmetic are the integer *)
(* quotients computed here.                                                       *)

\* base_size = int(account_equity / 10000)
BaseSize(account_equity) == account_equity \div 10000

\* the effective confidence taken to be 1.0 whatever the signal says
EffectiveConfidenceIgnored(signal_confidence) == 10

\* effective_confidence = max(signal_confidence, 0.6), in tenths
EffectiveConfidence(signal_confidence) == Max(signal_confidence, 6)

\* the contract size without the floor of one contract
CalculateContractSizeUnforced(account_equity, signal_confidence) ==
    IF account_equity = None \/ Val(account_equity) <= 0 THEN 0
    ELSE (BaseSize(Val(account_equity)) * EffectiveConfidence(signal_confidence)) \div 10

\* calculate_contract_size(account_equity, signal_confidence)
CalculateContractSize(account_equity, signal_confidence) ==
    IF account_equity = None \/ Val(account_equity) <= 0 THEN 0
    ELSE Max(1, (BaseSize(Val(account_equity)) *
                     EffectiveConfidence(signal_confidence)) \div 10)

\* a call of calculate_contract_size and what it returns
CalculateContractSizeCall(account_equity, signal_confidence) ==
    /\ risk_manager # None
    /\ last_call' =
           Call("calculate_contract_size",
                [ account_equity |-> account_equity,
                  signal_confidence |-> signal_confidence,
                  size |-> CalculateContractSize(account_equity, signal_confidence) ])
    /\ UNCHANGED << riskVars, configVars, now, simVars, liveVars, schedulerVars, analysisVars >>

-----------------------------------------------------------------------------
(* Strategy Managers *)

\* Times are in seconds and confidences in hundredths (85 is 0.85); the delta
\* ratio is in hundredths too.

\* what a strategy's analyze comes to on a snapshot
NoSetup == [ kind |-> "none", confidence |-> 0 ]
Raises == [ kind |-> "raise", confidence |-> 0 ]
Produces(confidence) == [ kind |-> "signal", confidence |-> confidence ]

\* a TradeSignal as far as the managers look at it
Signal(strategy, confidence) == [ strategy |-> strategy, confidence |-> confidence ]

\* the snapshots evaluate_signal is given: the trend indicators; the indicator
\* 'cumulative_delta_data', which is absent, an object without a ratio attribute
\* (a float, as the annotation Dict[str, float] has it), an object whose ratio is
\* None, or a CumulativeDeltaData with its ratio; and what ICTStrategy's
\* confluence logic makes of the snapshot (an exception inside it, no setup, or
\* one of its two confidences)
MarketDatas ==
    [ trend_direction : { "Bullish", "Bearish", "Neutral", "absent" },
      trend_confidence : { 50, 60, 70 },
      cumulative_delta_data :
          { [ kind |-> k, ratio |-> 0 ] :
                k \in { "absent", "no_ratio_attribute", "ratio_none" } }
              \cup { [ kind |-> "data", ratio |-> r ] : r \in { 0 - 80, 0, 40, 80, 100 } },
      ict : { NoSetup, Raises, Produces(75), Produces(90) } ]

\* _select_strategy_based_on_conditions(market_data)
SelectStrategyBasedOnConditions(market_data) ==
    IF market_data.trend_direction = "Bullish" /\ market_data.trend_confidence > 65
    THEN "ICT"
    ELSE IF market_data.trend_direction = "Bearish" /\ market_data.trend_confidence > 65
    THEN "Delta"
    ELSE IF market_data.trend_direction = "Neutral" /\ market_data.trend_confidence > 50
    THEN "Delta"
    ELSE "ICT"

\* ICTStrategy.analyze(market_data): its body is one try block whose handler
\* logs the exception and returns None
IctAnalyze(market_data) ==
    IF market_data.ict.kind = "raise" THEN NoSetup ELSE market_data.ict

\* len(delta_history) after DeltaStrategy.analyze(market_data): the ratio is
\* appended to a deque of at most lookback_bars entries once it is read
DeltaHistoryLenAfter(market_data) ==
    IF market_data.cumulative_delta_data.kind = "data"
    THEN (IF delta_history_len < lookback_bars THEN delta_history_len + 1
          ELSE lookback_bars)
    ELSE delta_history_len

\* DeltaStrategy.analyze(market_data): no try block; reading .ratio of an object
\* that has none raises AttributeError; the confidence of a ratio beyond the
\* threshold is min(0.6 + (abs(ratio) - ratio_threshold) * 0.5, 0.95)
DeltaAnalyze(market_data) ==
    LET data == market_data.cumulative_delta_data
        scaled == 60 + (Abs(data.ratio) - ratio_threshold) \div 2
    IN  IF data.kind = "absent" THEN NoSetup
        ELSE IF data.kind = "no_ratio_attribute" THEN Raises
        ELSE IF data.kind = "ratio_none" THEN NoSetup
        ELSE IF DeltaHistoryLenAfter(market_data) < lookback_bars THEN NoSetup
        ELSE IF data.ratio > ratio_threshold \/ data.ratio < 0 - ratio_threshold
        THEN Produces(IF scaled <= 95 THEN scaled ELSE 95)
        ELSE NoSetup

\* the test of evaluate_signal for the overall cooldown, with the cooldown measured
\* from the current evaluation's clock reading instead
InCooldownNever(current_time) ==
    last_signal_time # None /\ current_time - current_time >= cooldown_seconds

\* the test of evaluate_signal for the overall cooldown
InCooldown(current_time) ==
    last_signal_time # None /\ current_time - Val(last_signal_time) < cooldown_seconds

\* the test of evaluate_signal for a valid signal, without the threshold
SignalValidAnyConfidence(finding) == finding.kind = "signal"

\* the test of evaluate_signal for a valid signal
SignalValid(finding) ==
    finding.kind = "signal" /\ finding.confidence >= MIN_CONFIDENCE_THRESHOLD

\* what a call of evaluate_signal came to: the clock reading, the strategy
\* consulted ("none" in the cooldown), what its analyze returned, whether an
\* exception was raised inside analyze, whether an exception left the call, and
\* the signal returned
Evaluation(current_time, consulted, finding, analyze_raised, raised, signal) ==
    [ current_time |-> current_time, consulted |-> consulted, finding |-> finding,
      analyze_raised |-> analyze_raised, raised |-> raised, signal |-> signal ]

\* StrategyManager.evaluate_signal(market_data) of strategies.py
EvaluateSignal(market_data, utcnow) ==
    LET current_time == utcnow
        selected_strategy_name == SelectStrategyBasedOnConditions(market_data)
        finding == IF selected_strategy_name = "ICT" THEN IctAnalyze(market_data)
                   ELSE DeltaAnalyze(market_data)
        analyze_raised == IF selected_strategy_name = "ICT"
                          THEN market_data.ict.kind = "raise"
                          ELSE finding.kind = "raise"
    IN  /\ now' = utcnow
        /\ IF InCooldown(current_time)
           THEN /\ last_call' =
                       Call("evaluate_signal",
                            Evaluation(current_time, "none", NoSetup, FALSE, FALSE, None))
                /\ UNCHANGED strategyVars
           ELSE /\ delta_history_len' =
                       IF selected_strategy_name = "Delta"
                       THEN DeltaHistoryLenAfter(market_data) ELSE delta_history_len
                /\ IF finding.kind = "raise"
                   THEN /\ last_call' =
                               Call("evaluate_signal",
                                    Evaluation(current_time, selected_strategy_name,
                                               finding, analyze_raised, TRUE, None))
                        /\ UNCHANGED last_signal_time
                   ELSE IF SignalValid(finding)
                   THEN /\ last_signal_time' = Some(current_time)
                        /\ last_call' =
                               Call("evaluate_signal",
                                    Evaluation(current_time, selected_strategy_name,
                                               finding, analyze_raised, FALSE,
                                               Some(Signal(selected_strategy_name,
                                                           finding.confidence))))
                   ELSE /\ last_call' =
                               Call("evaluate_signal",
                                    Evaluation(current_time, selected_strategy_name,
                                               finding, analyze_raised, FALSE, None))
                        /\ UNCHANGED last_signal_time
        /\ UNCHANGED << configVars, simVars, liveVars, schedulerVars, riskVars, marketVars, barVars,
                    profileVars >>

\* StrategyManager.reset_cooldown() of strategies.py
ResetCooldown ==
    /\ last_signal_time' = None
    /\ last_call' = Call("reset_cooldown", "reset")
    /\ UNCHANGED << delta_history_len, now >>
    /\ UNCHANGED << configVars, simVars, liveVars, schedulerVars, riskVars, marketVars, barVars,
                    profileVars >>

\* the strategies main.py registers with the StrategyManager of strategy.py, and
\* what their analyze comes to on a snapshot: ICTStrategy and DeltaStrategy give
\* a confidence of 0.6, MentalistStrategy the decision tree's score
RegisteredStrategies == << "ICTStrategy", "DeltaStrategy", "MentalistStrategy" >>

\* StrategyManager.evaluate(market_data) of strategy.py: the strategies are
\* analysed in order inside a try block each, up to the first accepted signal
Evaluate(findings) ==
    LET accepted == { i \in 1 .. Len(RegisteredStrategies) :
                        /\ findings[i].kind = "signal"
                        /\ findings[i].confidence >= min_confidence }
        first == IF accepted = {} THEN 0
                 ELSE CHOOSE i \in accepted : \A j \in accepted : i <= j
        analysed == IF first = 0 THEN 1 .. Len(RegisteredStrategies) ELSE 1 .. first
    IN  /\ last_call' =
               Call("evaluate",
                    [ caught |-> { RegisteredStrategies[i] : i \in { j \in analysed :
                                                            findings[j].kind = "raise" } },
                      raised |-> FALSE,
                      signal |-> IF first = 0 THEN None
                                 ELSE Some(Signal(RegisteredStrategies[first],
                                                  findings[first].confidence)) ])
        /\ UNCHANGED << strategyVars, now >>
        /\ UNCHANGED << configVars, simVars, liveVars, schedulerVars, riskVars, marketVars, barVars,
                    profileVars >>

-----------------------------------------------------------------------------
(* Market State Engine: the bars *)

\* Timestamps are in seconds from midnight.

\* _round_time(dt, minutes): dt with its minute of the day rounded down to a
\* multiple of minutes and its seconds dropped
RoundTime(dt, minutes) == (dt \div (60 * minutes)) * (60 * minutes)

\* the test of _update_bars for a trade that opens a bar
OpensBar(bar, rounded_time_for_bar) == bar = None \/ Val(bar).t # rounded_time_for_bar

\* the closed bars of an interval after _update_bars: the bar that is closed is
\* appended to a deque(maxlen=200), whose oldest entry leaves it when it is full
ClosedBars(history, bar, interval, timestamp) ==
    IF OpensBar(bar, RoundTime(timestamp, interval)) /\ bar # None
    THEN (IF Len(history) = BarsMaxlen THEN Append(Tail(history), Val(bar))
          ELSE Append(history, Val(bar)))
    ELSE history

\* self.bars[interval] after _update_bars
BarsAfter(interval, timestamp) ==
    ClosedBars(bars[interval], current_bar[interval], interval, timestamp)

\* the open bar of an interval after _update_bars: a new bar of the trade, or the
\* open one with the trade added
OpenBar(bar, interval, timestamp, price, size) ==
    IF OpensBar(bar, RoundTime(timestamp, interval))
    THEN Some([ t |-> RoundTime(timestamp, interval), o |-> price, h |-> price,
                l |-> price, c |-> price, v |-> size ])
    ELSE Some([ Val(bar) EXCEPT
                  !.h = IF Val(bar).h >= price THEN Val(bar).h ELSE price,
                  !.l = IF Val(bar).l <= price THEN Val(bar).l ELSE price,
                  !.c = price,
                  !.v = Val(bar).v + size ])

\* self.current_bar[interval] after _update_bars
CurrentBarAfter(interval, timestamp, price, size) ==
    OpenBar(current_bar[interval], interval, timestamp, price, size)

\* _update_bars(timestamp, price, size), over the three intervals
UpdateBars(timestamp, price, size) ==
    /\ \A interval \in Intervals :
           /\ Len(BarsAfter(interval, timestamp)) <= MaxBars
           /\ Val(CurrentBarAfter(interval, timestamp, price, size)).v <= MaxVolume
    /\ bars' = [ interval \in Intervals |-> BarsAfter(interval, timestamp) ]
    /\ current_bar' =
           [ interval \in Intervals |-> CurrentBarAfter(interval, timestamp, price, size) ]
    /\ last_call' = Call("_update_bars",
                         [ timestamp |-> timestamp, price |-> price, size |-> size ])
    /\ UNCHANGED << configVars, now, simVars, liveVars, schedulerVars, riskVars, marketVars,
                    strategyVars, profileVars >>

-----------------------------------------------------------------------------
(* Market State Engine: the trade, quote and depth events *)

\* A payload of trades is the sequence of its trades; a payload that is a single
\* trade is the sequence of that trade, and None, [] and {} are the empty
\* sequence.  A key a trade, a quote or a level does not carry is None.

\* what the trades of a payload change: the tick buffer, quotes["last"], the
\* closed bars and the open bars
MarketState ==
    [ trades |-> trades, last |-> quotes.last, bars |-> bars, current_bar |-> current_bar ]

\* _process_single_trade(trade) at the time timestamp, from the state given
ProcessSingleTrade(state, trade, timestamp) ==
    IF trade.price = None THEN state
    ELSE LET price == Val(trade.price)
             size == IF trade.size = None THEN 1 ELSE Val(trade.size)
             tick == [ timestamp |-> timestamp, price |-> price, size |-> size ]
         IN  [ trades |-> IF Len(state.trades) = TradesMaxlen
                          THEN Append(Tail(state.trades), tick)
                          ELSE Append(state.trades, tick),
               last |-> Some(price),
               bars |-> [ interval \in Intervals |->
                            ClosedBars(state.bars[interval], state.current_bar[interval],
                                       interval, timestamp) ],
               current_bar |-> [ interval \in Intervals |->
                                   OpenBar(state.current_bar[interval], interval,
                                           timestamp, price, size) ] ]

\* the loop of process_trade over the trades of the payload
RECURSIVE ProcessTrades(_, _, _)
ProcessTrades(state, trade_data, timestamp) ==
    IF trade_data = << >> THEN state
    ELSE ProcessTrades(ProcessSingleTrade(state, Head(trade_data), timestamp),
                       Tail(trade_data), timestamp)

\* process_trade([None, trade_data]) at the minute utcnow of the clock
ProcessTrade(trade_data, utcnow) ==
    LET after == ProcessTrades(MarketState, trade_data, 60 * utcnow)
    IN  /\ Len(after.trades) <= MaxTrades
        /\ \A interval \in Intervals :
               /\ Len(after.bars[interval]) <= MaxBars
               /\ after.current_bar[interval] # None
                      => Val(after.current_bar[interval]).v <= MaxVolume
        /\ now' = utcnow
        /\ trades' = after.trades
        /\ quotes' = [ quotes EXCEPT !.last = after.last ]
        /\ bars' = after.bars
        /\ current_bar' = after.current_bar
        /\ depth' = depth
        /\ last_call' =
               Call("process_trade",
                    IF trade_data = << >> THEN "empty"
                    ELSE IF \A i \in 1 .. Len(trade_data) : trade_data[i].price = None
                    THEN "no price"
                    ELSE "processed")
        /\ UNCHANGED << configVars, simVars, liveVars, schedulerVars, riskVars,
                        strategyVars, profileVars >>

\* quote.get(key, held): the value of the quote, the one held without it
QuoteField(value, held) == IF value = None THEN held ELSE value

\* process_quote([None, quote_data]): quote_data is None for an empty payload,
\* else the quote, the first one of a list
ProcessQuote(quote_data) ==
    /\ IF quote_data = None
       THEN /\ quotes' = quotes
            /\ last_call' = Call("process_quote", "empty")
       ELSE LET quote == Val(quote_data)
            IN  /\ quotes' = [ bid |-> QuoteField(quote.bestBid, quotes.bid),
                               ask |-> QuoteField(quote.bestAsk, quotes.ask),
                               last |-> QuoteField(quote.lastPrice, quotes.last) ]
                /\ last_call' = Call("process_quote", "processed")
    /\ UNCHANGED << trades, depth >>
    /\ UNCHANGED << configVars, now, simVars, liveVars, schedulerVars, riskVars,
                    strategyVars, barVars, profileVars >>

\* the dict process_depth builds from the levels that carry a position and a
\* size: for each position its last level
DepthOf(levels) ==
    LET valid == { i \in 1 .. Len(levels) :
                       levels[i].position # None /\ levels[i].size # None }
    IN  [ position \in { Val(levels[i].position) : i \in valid } |->
            levels[CHOOSE i \in valid :
                       /\ Val(levels[i].position) = position
                       /\ \A j \in valid : Val(levels[j].position) = position => j <= i] ]

\* process_depth([None, levels])
ProcessDepth(levels) ==
    /\ IF levels = << >>
       THEN /\ depth' = << >>
            /\ last_call' = Call("process_depth", "empty")
       ELSE /\ depth' = DepthOf(levels)
            /\ last_call' = Call("process_depth", "processed")
    /\ UNCHANGED << trades, quotes >>
    /\ UNCHANGED << configVars, now, simVars, liveVars, schedulerVars, riskVars,
                    strategyVars, barVars, profileVars >>

-----------------------------------------------------------------------------
(* Council Indicators: the volume profile *)

\* Prices and price levels are in eighths of a point, so that the resolution of
\* 0.25 is 2 and every second price lies halfway between two levels.

\* round(n / d) of Python: to the nearest integer, a half to the even one
RoundHalfEven(n, d) ==
    LET q == n \div d
        r == n % d
    IN  IF 2 * r < d THEN q
        ELSE IF 2 * r > d THEN q + 1
        ELSE IF q % 2 = 0 THEN q ELSE q + 1

\* the keys of the profile
Levels == { profile[i][1] : i \in 1 .. Len(profile) }

\* self.profile[level]
VolumeAt(level) ==
    LET i == CHOOSE i \in 1 .. Len(profile) : profile[i][1] = level
    IN  profile[i][2]

\* SmartVolumeProfile.update(price, volume)
Update(price, volume) ==
    LET price_level == RoundHalfEven(price, resolution) * resolution
    IN  /\ IF price_level \in Levels
           THEN /\ VolumeAt(price_level) + volume <= MaxLevelVolume
                /\ profile' = [ i \in 1 .. Len(profile) |->
                                  IF profile[i][1] = price_level
                                  THEN << price_level, profile[i][2] + volume >>
                                  ELSE profile[i] ]
           ELSE profile' = Append(profile, << price_level, volume >>)
        /\ total_volume' = total_volume + volume
        /\ last_call' = Call("update", price_level)
        /\ UNCHANGED << configVars, now, simVars, liveVars, schedulerVars, riskVars, marketVars,
                        strategyVars, barVars >>

\* SmartVolumeProfile.reset()
ResetProfile ==
    /\ profile' = << >>
    /\ total_volume' = 0
    /\ last_call' = Call("reset", "reset")
    /\ UNCHANGED << configVars, now, simVars, liveVars, schedulerVars, riskVars, marketVars,
                    strategyVars, barVars >>

\* sorted(self.profile.keys())
RECURSIVE SortedLevels(_)
SortedLevels(levels) ==
    IF levels = {} THEN << >>
    ELSE LET least == CHOOSE l \in levels : \A m \in levels : l <= m
         IN  << least >> \o SortedLevels(levels \ { least })

\* max(self.profile, key=self.profile.get): the first key of the dict, in its
\* order, among those of the highest volume
PocLevelOf(items) ==
    LET i == CHOOSE i \in 1 .. Len(items) :
                 /\ \A j \in 1 .. Len(items) : items[j][2] <= items[i][2]
                 /\ \A j \in 1 .. i - 1 : items[j][2] < items[i][2]
    IN  items[i][1]

\* poc_level of get_value_areas
PocLevel == PocLevelOf(profile)

\* the loop of get_value_areas going on to the last level on either side,
\* whatever volume the area has reached
ExpandWhole(levels_to_check, low_idx, high_idx, cumulative_volume, value_area_levels, value_area_percentage) ==
    value_area_levels
        \o [ i \in 1 .. low_idx - 1 |-> levels_to_check[low_idx - i] ]
        \o [ i \in 1 .. Len(levels_to_check) - high_idx |-> levels_to_check[high_idx + i] ]

\* the test of get_value_areas between the two neighbours of the area, giving
\* the lower side only the strictly larger volume
ExtendsLowStrictly(next_low_vol, next_high_vol) == next_low_vol > next_high_vol

\* the test of get_value_areas between the two neighbours of the area
ExtendsLow(next_low_vol, next_high_vol) == next_low_vol >= next_high_vol

\* the loop of get_value_areas: value_area_levels, in the order the levels are
\* appended, from the area between low_idx and high_idx on; the share
\* value_area_percentage is in tenths
RECURSIVE Expand(_, _, _, _, _, _)
Expand(levels_to_check, low_idx, high_idx, cumulative_volume, value_area_levels, value_area_percentage) ==
    LET can_expand_low == low_idx > 1
        can_expand_high == high_idx < Len(levels_to_check)
        to_low == Expand(levels_to_check, low_idx - 1, high_idx,
                         cumulative_volume + VolumeAt(levels_to_check[low_idx - 1]),
                         Append(value_area_levels, levels_to_check[low_idx - 1]),
                         value_area_percentage)
        to_high == Expand(levels_to_check, low_idx, high_idx + 1,
                          cumulative_volume + VolumeAt(levels_to_check[high_idx + 1]),
                          Append(value_area_levels, levels_to_check[high_idx + 1]),
                          value_area_percentage)
    IN  IF ~( /\ 10 * cumulative_volume < total_volume * value_area_percentage
              /\ (can_expand_low \/ can_expand_high) )
        THEN value_area_levels
        ELSE IF can_expand_low /\ can_expand_high
        THEN (IF ExtendsLow(VolumeAt(levels_to_check[low_idx - 1]),
                            VolumeAt(levels_to_check[high_idx + 1]))
              THEN to_low ELSE to_high)
        ELSE IF can_expand_low THEN to_low
        ELSE to_high

\* value_area_levels of get_value_areas before the final sort
AppendedLevels(value_area_percentage) ==
    IF profile = << >> \/ total_volume = 0 THEN << >>
    ELSE LET levels_to_check == SortedLevels(Levels)
             poc_index == CHOOSE i \in 1 .. Len(levels_to_check) :
                              levels_to_check[i] = PocLevel
         IN  Expand(levels_to_check, poc_index, poc_index, VolumeAt(PocLevel),
                    << PocLevel >>, value_area_percentage)

\* SmartVolumeProfile.get_value_areas(value_area_percentage): the levels in the
\* order the loop took them, and the list returned, the (level, volume) pairs of
\* the area sorted by level, with the share that was asked for
GetValueAreas(value_area_percentage) ==
    LET appended == AppendedLevels(value_area_percentage)
        sorted == SortedLevels({ appended[i] : i \in 1 .. Len(appended) })
    IN  /\ last_call' =
               Call("get_value_areas",
                    [ value_area_percentage |-> value_area_percentage,
                      appended |-> appended,
                      value_area |-> [ i \in 1 .. Len(sorted) |->
                                         << sorted[i], VolumeAt(sorted[i]) >> ] ])
        /\ UNCHANGED << configVars, now, simVars, liveVars, schedulerVars, riskVars, marketVars,
                        strategyVars, barVars, profileVars >>

-----------------------------------------------------------------------------
(* Specification *)

Init ==
    /\ live_mode \in BOOLEAN
    /\ now = 0
    /\ virtual_sl_ticks \in (IF live_mode THEN {MaxTicks} ELSE TickCounts)
    /\ virtual_tp_ticks \in (IF live_mode THEN {MaxTicks} ELSE TickCounts)
    /\ active_simulated_trade = None
    /\ total_simulated_pnl = 0
    /\ pending_sim_log_updates = << >>
    /\ next_trade_id = 0
    /\ active_live_trade_tracking = None
    /\ live_positions = NoPositions
    /\ active_orders = {}
    /\ pending_live_log_updates = << >>
    /\ entry_calls = {}
    /\ exit_tasks = {}
    /\ orders_placed = 0
    /\ next_order_id = 1
    /\ closes_submitted = [ id \in 1 .. MaxOrders |-> 0 ]
    /\ live_log_appends = 0
    /\ rejection_reason = [ request \in 1 .. MaxOrders |-> None ]
    /\ last_call = Call("init", "constructed")
    /\ scheduled_orders = NoScheduledOrders
    /\ next_schedule_id = 1
    /\ scheduler_task = None
    /\ execution_tasks = {}
    /\ handovers = [ sid \in ScheduleIds |-> << >> ]
    /\ cancelled_orders = {}
    /\ risk_manager = None
    /\ breach_events = 0
    /\ current_equity = None
    /\ last_signal_time = None
    /\ delta_history_len = 0
    /\ bars = [ interval \in Intervals |-> << >> ]
    /\ current_bar = [ interval \in Intervals |-> None ]
    /\ profile = << >>
    /\ total_volume = 0
    /\ trades = << >>
    /\ quotes = [ bid |-> None, ask |-> None, last |-> None ]
    /\ depth = << >>

Next ==
    \/ InitiateSimulatedTradeSkipped
    \/ \E sig \in SimSignals, size \in Sizes, utcnow \in UtcNow :
           \E q \in SnapshotsRead(sig) : InitiateSimulatedTrade(sig, size, q, utcnow)
    \/ \E p \in Prices : \E utcnow \in ExitClock(p) : UpdateSimulatedTradePrice(p, utcnow)
    \/ GetTradeLogAndClearSim
    \/ ResetPnlAndTradesSim
    \/ InitiateLiveTradeSkipped
    \/ \E signal \in SignalHeads, size \in LiveSizes : InitiateLiveTradeBegin(signal, size)
    \/ \E call \in entry_calls : \E sig \in SignalsOf(call.signal) :
           \E q \in SnapshotsRead(sig) : InitiateLiveTradeAccepted(call, sig, q)
    \/ \E call \in entry_calls : InitiateLiveTradeFailed(call)
    \/ \E p \in Prices : UpdateLiveTradePrice(p)
    \/ \E task \in exit_tasks : SendExitOrderBegin(task)
    \/ \E task \in exit_tasks, accepted \in BOOLEAN : SendExitOrderResume(task, accepted)
    \/ \E c \in Contracts, p \in {None, Some(2)}, n \in Quantities :
           OnPositionUpdate(c, p, n)
    \/ GetTradeLogAndClearLive
    \/ ResetPnlAndTradesLive

Spec == Init /\ [][Next]_vars

\* The engine driven in simulated mode only: the behaviours of Spec with
\* live_mode = FALSE, where no live operation is enabled.
InitSim == Init /\ ~live_mode

NextSim ==
    \/ InitiateSimulatedTradeSkipped
    \/ \E sig \in SimSignals, size \in Sizes, utcnow \in UtcNow :
           \E q \in SnapshotsRead(sig) : InitiateSimulatedTrade(sig, size, q, utcnow)
    \/ \E p \in Prices : \E utcnow \in ExitClock(p) : UpdateSimulatedTradePrice(p, utcnow)
    \/ GetTradeLogAndClearSim
    \/ ResetPnlAndTradesSim

SpecSim == InitSim /\ [][NextSim]_vars

\* The engine driven in live mode only: the behaviours of Spec with
\* live_mode = TRUE, where no simulated operation is enabled.
InitLive == Init /\ live_mode

NextLive ==
    \/ InitiateLiveTradeSkipped
    \/ \E signal \in SignalHeads, size \in LiveSizes : InitiateLiveTradeBegin(signal, size)
    \/ \E call \in entry_calls : \E sig \in SignalsOf(call.signal) :
           \E q \in SnapshotsRead(sig) : InitiateLiveTradeAccepted(call, sig, q)
    \/ \E call \in entry_calls : InitiateLiveTradeFailed(call)
    \/ \E p \in Prices : UpdateLiveTradePrice(p)
    \/ \E task \in exit_tasks : SendExitOrderBegin(task)
    \/ \E task \in exit_tasks, accepted \in BOOLEAN : SendExitOrderResume(task, accepted)
    \/ \E c \in Contracts, p \in {None, Some(2)}, n \in Quantities :
           OnPositionUpdate(c, p, n)
    \/ GetTradeLogAndClearLive
    \/ ResetPnlAndTradesLive

SpecLive == InitLive /\ [][NextLive]_vars

\* The Order Scheduler with the engine it hands its orders to: the scheduler calls
\* execute_trade with live_mode=True only, and of the engine only the entry it
\* calls is in play.
NextScheduler ==
    \/ StartSchedulerLoop
    \/ StopSchedulerLoop
    \/ \E current_time \in UtcNow : PeriodicCheckForDueOrders(current_time)
    \/ \E task \in execution_tasks : ExecuteScheduledTrade(task)
    \/ \E trade_signal \in ScheduledSignals, size \in Sizes,
          execution_time \in ExecutionTimes :
           \E utcnow \in ScheduleClock(execution_time) :
               ScheduleTradeExecution(trade_signal, size, execution_time, utcnow)
    \/ \E contract_id \in ScheduledContracts : CancelScheduledTrade(contract_id)

SpecScheduler == InitLive /\ [][NextScheduler]_vars

\* The sweep as a step of the scheduler
Sweep == \E current_time \in UtcNow : PeriodicCheckForDueOrders(current_time)

\* The Order Scheduler with its sweep waking up again and again: while its task is
\* alive the loop sleeps polling_interval_sec between two passes and then runs the
\* next one.
SpecSchedulerFair == SpecScheduler /\ WF_vars(Sweep)

\* The Risk Manager on its own: its construction and its daily-loss checks.
NextRisk ==
    \/ \E max_daily_loss \in InitialLimits : ConstructRiskManager(max_daily_loss)
    \/ \E fetched_pnl \in FetchedPnls : CheckDailyLoss(fetched_pnl)
    \/ \E current_daily_pnl \in FetchedPnls : CheckDailyLossOfAccount(current_daily_pnl)
    \/ ResetDailyPnlTracking

SpecRisk == InitLive /\ [][NextRisk]_vars

\* The Risk Manager's checks of a candidate trade beside its daily-loss state and
\* the account feed.
NextRiskChecks ==
    \/ \E max_daily_loss \in InitialLimits : ConstructRiskManager(max_daily_loss)
    \/ \E fetched_pnl \in FetchedPnls : CheckDailyLoss(fetched_pnl)
    \/ \E equity \in Equities : AccountValueReported(equity)
    \/ \E trade_signal \in ScheduledSignals, size \in Sizes :
           ValidateTradeEligibilityCall(trade_signal, size)
    \* the equity unknown, negative, zero or up to some tens of thousands; the
    \* confidence in tenths
    \/ \E account_equity \in {None} \cup { Some(5000 * k) : k \in (0 - 1) .. MaxEquitySteps },
          signal_confidence \in 0 .. 10 :
           CalculateContractSizeCall(account_equity, signal_confidence)

SpecRiskChecks == InitLive /\ [][NextRiskChecks]_vars

\* The Strategy Managers on their own: the evaluation cycles of strategies.py, its
\* cooldown reset, and the evaluation cycles of strategy.py.
NextStrategy ==
    \* the clock is read at multiples of 30 seconds, on both sides of cooldown_seconds
    \/ \E market_data \in MarketDatas,
          utcnow \in { t \in now .. 30 * MaxEvalSteps : t % 30 = 0 } :
           EvaluateSignal(market_data, utcnow)
    \/ ResetCooldown
    \/ \E findings \in [ 1 .. Len(RegisteredStrategies) ->
                             { NoSetup, Raises, Produces(40), Produces(60) } ] :
           Evaluate(findings)

SpecStrategy == InitLive /\ [][NextStrategy]_vars

\* The bars of the Market State Engine on their own: the trades it is given, with
\* any timestamps.
NextBars ==
    \* two readings inside a minute, the next minute, and the starts of the next
    \* 5-minute and 15-minute intervals
    \E timestamp \in { 0, 30, 60, 300, 900 }, price \in { 1, 2, 3 }, size \in { 1, 2 } :
        UpdateBars(timestamp, price, size)

SpecBars == InitLive /\ [][NextBars]_vars

\* The volume profile on its own: its updates, its reset and the value areas read
\* from it, for the default share of 70% and for the whole volume.
NextProfile ==
    \/ \E price \in 2 .. 2 * MaxLevels, volume \in { 1, 2 } : Update(price, volume)
    \/ ResetProfile
    \/ \E value_area_percentage \in { 7, 10 } : GetValueAreas(value_area_percentage)

SpecProfile == InitLive /\ [][NextProfile]_vars

\* The Market State Engine on its own: the trade, quote and depth events it is
\* given.  A payload holds up to two trades, a trade a price of 1 or 2 or none
\* and a size of 2 or none; a quote holds none, some or all of its three fields;
\* a depth payload holds up to two levels.
NextMarket ==
    \/ \E trade_data \in UNION { [ 1 .. n -> [ price : { None, Some(1), Some(2) },
                                               size : { None, Some(2) } ] ] : n \in 0 .. 2 },
          utcnow \in UtcNow :
           ProcessTrade(trade_data, utcnow)
    \/ \E quote_data \in {None} \cup
                          { Some(q) : q \in [ bestBid : { None, Some(1) },
                                              bestAsk : { None, Some(2) },
                                              lastPrice : { None, Some(1), Some(2) } ] } :
           ProcessQuote(quote_data)
    \/ \E levels \in UNION { [ 1 .. n -> [ position : { None, Some(1), Some(2) },
                                           size : { None, Some(1), Some(3) } ] ] : n \in 0 .. 2 } :
           ProcessDepth(levels)

SpecMarket == InitLive /\ [][NextMarket]_vars

\* The decision-to-execution pipeline of the repository: the Risk Manager and the
\* account feed beside the Order Scheduler, the only caller of execute_trade.
NextPipeline ==
    \/ \E max_daily_loss \in {20} : ConstructRiskManager(max_daily_loss)
    \/ \E fetched_pnl \in {Some(0 - 20), Some(0)} : CheckDailyLoss(fetched_pnl)
    \/ \E equity \in {MarginPerContract * MaxSize} : AccountValueReported(equity)
    \/ StartSchedulerLoop
    \/ \E current_time \in UtcNow : PeriodicCheckForDueOrders(current_time)
    \/ \E task \in execution_tasks : ExecuteScheduledTrade(task)
    \/ \E trade_signal \in ScheduledSignals, size \in Sizes,
          execution_time \in ExecutionTimes :
           \E utcnow \in ScheduleClock(execution_time) :
               ScheduleTradeExecution(trade_signal, size, execution_time, utcnow)

SpecPipeline == InitLive /\ [][NextPipeline]_vars

-----------------------------------------------------------------------------
(* The calls of the engine as steps *)

\* execute_trade(trade_signal, live_mode=True, contract_size)
LiveEntryAttempt ==
    \/ InitiateLiveTradeSkipped
    \/ \E signal \in SignalHeads, size \in LiveSizes : InitiateLiveTradeBegin(signal, size)

\* execute_trade(trade_signal, live_mode=False, contract_size)
SimEntryAttempt ==
    \/ InitiateSimulatedTradeSkipped
    \/ \E sig \in SimSignals, size \in Sizes, utcnow \in UtcNow :
           \E q \in SnapshotsRead(sig) : InitiateSimulatedTrade(sig, size, q, utcnow)

\* update_price(current_price, live_mode=True)
LivePriceUpdate == \E p \in Prices : UpdateLiveTradePrice(p)

-----------------------------------------------------------------------------
(* Properties *)

\* C1: a live entry attempt made while a live trade is tracked in a non-terminal
\* state (PENDING_ENTRY_FILL, OPEN, PARTIAL_FILL, CLOSING_PENDING,
\* CLOSING_ORDER_SENT, EXIT_ORDER_FAILED) is rejected: it submits no market order
\* and leaves the tracked trade as it is.
C1_LiveEntryRejectedWhileTracked ==
    [][ ( /\ active_live_trade_tracking # None
          /\ Val(active_live_trade_tracking).status \in
                 { "PENDING_ENTRY_FILL", "OPEN", "PARTIAL_FILL", "CLOSING_PENDING",
                   "CLOSING_ORDER_SENT", "EXIT_ORDER_FAILED" }
          /\ LiveEntryAttempt )
        => /\ orders_placed' = orders_placed
           /\ entry_calls' = entry_calls
           /\ active_live_trade_tracking' = active_live_trade_tracking ]_vars

\* C2: a live execute_trade that starts while another one is still awaiting the
\* answer to its entry order submits no entry order of its own: the check for an
\* active trade and the claiming of the slot are atomic.
C2_InterleavedLiveEntrySubmitsNothing ==
    [][ ( entry_calls # {} /\ LiveEntryAttempt )
        => /\ orders_placed' = orders_placed
           /\ entry_calls' = entry_calls ]_vars

\* C3: a simulated entry requested while a simulated trade is OPEN is rejected and
\* changes no field of the open trade, nor the PnL total, the log or the id source.
C3_SecondSimulatedEntryRejected ==
    [][ ( /\ active_simulated_trade # None
          /\ Val(active_simulated_trade).status = "OPEN"
          /\ SimEntryAttempt )
        => UNCHANGED << active_simulated_trade, total_simulated_pnl,
                        pending_sim_log_updates, next_trade_id >> ]_vars

\* C3 witness: a simulated entry has just been skipped and the trade is still OPEN
C3_Witness ==
    /\ ~live_mode
    /\ last_call = Call("execute_trade", "skipped")
    /\ active_simulated_trade # None
    /\ Val(active_simulated_trade).status = "OPEN"

\* C4: while the tracked live trade's entry price is unknown, a price update of any
\* price changes nothing of the trade and creates and submits no closing order.
C4_NoExitWhileEntryPriceUnknown ==
    [][ ( /\ active_live_trade_tracking # None
          /\ Val(active_live_trade_tracking).entry_price = None
          /\ LivePriceUpdate )
        => UNCHANGED << active_live_trade_tracking, exit_tasks, orders_placed,
                        closes_submitted >> ]_vars

\* C4 witness: a price update found the filled trade without entry price and waited
C4_Witness ==
    /\ last_call = Call("update_price", "waiting")
    /\ active_live_trade_tracking # None
    /\ Val(active_live_trade_tracking).status \in {"OPEN", "PARTIAL_FILL"}
    /\ Val(active_live_trade_tracking).entry_price = None

\* C5: a price update that satisfies the take-profit condition of the OPEN simulated
\* trade, or of the OPEN/PARTIAL_FILL live trade with known entry price, exits with
\* reason "TP Hit", whether or not the stop condition holds for the same price.
C5_TakeProfitBeforeStopLoss ==
    [][ \A p \in Prices :
          /\ ( /\ active_simulated_trade # None
               /\ Val(active_simulated_trade).status = "OPEN"
               /\ IF Val(active_simulated_trade).direction = BUY
                  THEN p >= Val(active_simulated_trade).target_price
                  ELSE p <= Val(active_simulated_trade).target_price
               /\ \E utcnow \in UtcNow : UpdateSimulatedTradePrice(p, utcnow) )
             => \/ /\ active_simulated_trade' # None
                   /\ Val(active_simulated_trade').status = "CLOSED"
                   /\ Val(active_simulated_trade').exit_reason = Some("TP Hit")
                \/ /\ Len(pending_sim_log_updates') = Len(pending_sim_log_updates) + 1
                   /\ pending_sim_log_updates'[Len(pending_sim_log_updates')].exit_reason
                          = "TP Hit"
          /\ ( /\ active_live_trade_tracking # None
               /\ Val(active_live_trade_tracking).status \in {"OPEN", "PARTIAL_FILL"}
               /\ Val(active_live_trade_tracking).entry_price # None
               /\ IF Val(active_live_trade_tracking).direction = BUY
                  THEN p >= Val(active_live_trade_tracking).take_profit_price
                  ELSE p <= Val(active_live_trade_tracking).take_profit_price
               /\ UpdateLiveTradePrice(p) )
             => \E task \in exit_tasks' :
                    /\ task.trade = Val(active_live_trade_tracking).entry_order_id
                    /\ task.stage = "created"
                    /\ task.exit_reason = "TP Hit" ]_vars

\* C5 witness: a simulated trade whose stop and target coincide was closed by a price
\* exactly at the target, with reason "TP Hit"
C5_Witness ==
    /\ active_simulated_trade # None
    /\ Val(active_simulated_trade).status = "CLOSED"
    /\ Val(active_simulated_trade).target_price = Val(active_simulated_trade).stop_price
    /\ Val(active_simulated_trade).exit_price =
           Some(Val(active_simulated_trade).target_price)
    /\ Val(active_simulated_trade).exit_reason = Some("TP Hit")

\* C6: a price update that triggers TP or SL on the OPEN/PARTIAL_FILL live trade
\* creates a closing order of the opposite direction and the full size and leaves
\* the trade CLOSING_PENDING; the answer to the closing order then makes that
\* trade CLOSING_ORDER_SENT when accepted and EXIT_ORDER_FAILED when not.
C6_CloseOrderOutcomeReachesItsTrade ==
    [][ /\ \A p \in Prices :
             ( /\ active_live_trade_tracking # None
               /\ Val(active_live_trade_tracking).status \in {"OPEN", "PARTIAL_FILL"}
               /\ Val(active_live_trade_tracking).entry_price # None
               /\ ExitDecision(Val(active_live_trade_tracking).direction, p,
                               Val(active_live_trade_tracking).take_profit_price,
                               Val(active_live_trade_tracking).stop_loss_price) # None
               /\ UpdateLiveTradePrice(p) )
             => /\ Val(active_live_trade_tracking').status = "CLOSING_PENDING"
                /\ \E task \in exit_tasks' :
                       /\ task.trade = Val(active_live_trade_tracking).entry_order_id
                       /\ task.direction # Val(active_live_trade_tracking).direction
                       /\ task.size = Val(active_live_trade_tracking).size
        /\ \A task \in exit_tasks, accepted \in BOOLEAN :
             ( active_live_trade_tracking # None /\ SendExitOrderResume(task, accepted) )
             => /\ active_live_trade_tracking' # None
                /\ Val(active_live_trade_tracking').entry_order_id = task.trade
                /\ Val(active_live_trade_tracking').status =
                       IF accepted THEN "CLOSING_ORDER_SENT" ELSE "EXIT_ORDER_FAILED"
      ]_vars

C9_SimulatedCloseProducesOneRecord ==
    [][ \A p \in Prices, utcnow \in UtcNow :
          ( /\ active_simulated_trade # None
            /\ Val(active_simulated_trade).status = "OPEN"
            /\ ExitDecision(Val(active_simulated_trade).direction, p,
                            Val(active_simulated_trade).target_price,
                            Val(active_simulated_trade).stop_price) # None
            /\ UpdateSimulatedTradePrice(p, utcnow) )
          => /\ Len(pending_sim_log_updates') = Len(pending_sim_log_updates) + 1
             /\ LET r == pending_sim_log_updates'[Len(pending_sim_log_updates')]
                    t == Val(active_simulated_trade)
                    sign == IF t.direction = BUY THEN 1 ELSE -1
                IN  /\ r.exit_price = p
                    /\ r.exit_time >= r.entry_time
                    /\ r.pnl = ((((p - t.entry_price) * sign) * t.size) * tick_value)
                                   \div tick_size ]_vars

\* C10: once the closing order of a live trade was accepted and its position is
\* flat, a TradeRecord of the trade has been appended to the live trade log.
C10_CompletedLiveTradeIsLogged ==
    ( /\ active_live_trade_tracking # None
      /\ Val(active_live_trade_tracking).status = "CLOSING_ORDER_SENT"
      /\ closes_submitted[Val(active_live_trade_tracking).entry_order_id] = 1
      /\ live_positions[Val(active_live_trade_tracking).contract_id] # None
      /\ Val(live_positions[Val(active_live_trade_tracking).contract_id]).quantity = 0 )
    => live_log_appends >= 1

-----------------------------------------------------------------------------
(* Properties of the pipeline, the Order Scheduler and the Risk Manager *)

\* the Risk Manager reports a violation for a signal and a size: its cooldown is
\* active, the margin requirement exceeds the balance, or the size is 0
RiskViolation(trade_signal, size) ==
    /\ risk_manager # None
    /\ \/ ~ValidateTradeEligibility(trade_signal, size)
       \/ size = 0

\* the engine submits an entry order for a signal and a size in this step
EntrySubmitted(trade_signal, size) ==
    \E call \in entry_calls' \ entry_calls :
        call.signal = SignalHead(trade_signal) /\ call.size = size

\* C11: a signal for which the Risk Manager reports a violation (cooldown active,
\* margin requirement above the available balance, or contract size 0) never leads
\* to a trade entry in the engine, whether the trade is executed at once or
\* released by the Order Scheduler.
C11_NoEntryUnderRiskViolation ==
    [][ \A trade_signal \in ScheduledSignals, size \in Sizes :
            RiskViolation(trade_signal, size) => ~EntrySubmitted(trade_signal, size) ]_vars

\* C12: under every interleaving of the sweep with cancel_scheduled_trade, an
\* order is handed to the engine at most once, an order a cancel removed is never
\* handed over, and a cancel issued after an order fired neither counts it as
\* removed nor undoes its handover or its execute_trade task.
C12_FiringAndCancellationExclusive ==
    /\ [](\A sid \in ScheduleIds :
            /\ Len(handovers[sid]) <= 1
            /\ sid \in cancelled_orders => handovers[sid] = << >>)
    /\ [][ /\ \A sid \in ScheduleIds :
                 handovers[sid] # << >> =>
                     /\ handovers'[sid] = handovers[sid]
                     /\ sid \notin cancelled_orders'
           /\ \A contract_id \in ScheduledContracts :
                 CancelScheduledTrade(contract_id) =>
                     execution_tasks' = execution_tasks ]_vars

\* an order was cancelled, orders of both contracts fired afterwards or before, and
\* the latest call is a cancel that found nothing left to remove
C12_Witness ==
    /\ last_call = Call("cancel_scheduled_trade", "not_found")
    /\ cancelled_orders # {}
    /\ \A contract_id \in ScheduledContracts :
           \E task \in execution_tasks :
               /\ task.call.trade_signal.contract_id = contract_id
               /\ handovers[task.schedule_id] # << >>

\* C13: while the sweep keeps running, every stored order whose execution_time
\* has come leaves scheduled_orders; an order leaves scheduled_orders only by a
\* cancel or by one handover to the engine that carries its original signal and
\* its scheduled size, and the handover is not made before its execution_time.
C13_DueOrdersAreHandedOver ==
    /\ \A sid \in ScheduleIds :
           ( /\ sid \in DOMAIN scheduled_orders
             /\ Val(scheduled_orders[sid].execution_time) <= now
             /\ scheduler_task = Some(RUNNING) )
           ~> ( sid \notin DOMAIN scheduled_orders \/ scheduler_task # Some(RUNNING) )
    /\ [][ \A sid \in DOMAIN scheduled_orders :
               LET scheduled_order == scheduled_orders[sid]
                   call == Handover(scheduled_order.original_trade_signal,
                                    scheduled_order.size)
               IN  /\ sid \notin DOMAIN scheduled_orders' =>
                          \/ sid \in cancelled_orders' /\ handovers'[sid] = << >>
                          \/ /\ handovers'[sid] = << call >>
                             /\ [ schedule_id |-> sid, call |-> call ] \in execution_tasks'
                             /\ Val(scheduled_order.execution_time) <= now'
                   /\ sid \in DOMAIN scheduled_orders' => handovers'[sid] = << >> ]_vars

\* an order of the largest size, stored for a later time, has been handed over by
\* the sweep and its execute_trade task is waiting
C13_Witness ==
    \E task \in execution_tasks :
        /\ task.call.contract_size = MaxSize
        /\ handovers[task.schedule_id] = << task.call >>
        /\ now > 0

\* C14: schedule_trade_execution with no execution_time, or with one that is not
\* after the clock reading, hands the order to the engine within the call and
\* leaves scheduled_orders as it is; with a later execution_time it adds exactly
\* one entry, the order as given, and hands over and executes nothing.
C14_ScheduleExecutesNowOrStores ==
    [][ \A trade_signal \in ScheduledSignals, size \in Sizes,
           execution_time \in ExecutionTimes :
          \A utcnow \in ScheduleClock(execution_time) :
            ScheduleTradeExecution(trade_signal, size, execution_time, utcnow) =>
                IF execution_time = None \/ Val(execution_time) <= utcnow
                THEN /\ scheduled_orders' = scheduled_orders
                     /\ handovers' =
                            [ handovers EXCEPT ![next_schedule_id] =
                                << Handover(trade_signal, size) >> ]
                     /\ last_call'.op = "execute_trade"
                ELSE /\ DOMAIN scheduled_orders' =
                            (DOMAIN scheduled_orders) \cup {next_schedule_id}
                     /\ next_schedule_id \notin DOMAIN scheduled_orders
                     /\ scheduled_orders'[next_schedule_id] =
                            [ contract_id |-> trade_signal.contract_id,
                              direction |-> trade_signal.direction,
                              size |-> size, execution_time |-> execution_time,
                              original_trade_signal |-> trade_signal ]
                     /\ \A sid \in DOMAIN scheduled_orders :
                            scheduled_orders'[sid] = scheduled_orders[sid]
                     /\ UNCHANGED << handovers, execution_tasks, orders_placed,
                                     entry_calls >> ]_vars

\* the sweep never ran; an order was handed over within its call, and the latest
\* call stored an order for a later time
C14_Witness ==
    /\ scheduler_task = None
    /\ last_call = Call("schedule_trade_execution", "scheduled")
    /\ \E sid \in DOMAIN scheduled_orders :
           /\ Val(scheduled_orders[sid].execution_time) > 0
           /\ \E earlier \in ScheduleIds : earlier < sid /\ handovers[earlier] # << >>

\* C15: scheduling an order for a contract that already has a pending order is
\* rejected, so scheduled_orders never holds more than one order (the limit of
\* prevent_over_trading) per contract.
C15_AtMostOnePendingOrderPerContract ==
    \A contract_id \in ScheduledContracts :
        Cardinality(OrdersOfContract(contract_id)) <= MaxScheduledPerContract

\* C16: cancel_scheduled_trade(contract_id) removes every pending order of that
\* contract and leaves the pending orders of every other contract as they are;
\* when the contract has no pending order scheduled_orders is unchanged.
C16_CancelRemovesExactlyTheContract ==
    [][ \A contract_id \in ScheduledContracts :
          CancelScheduledTrade(contract_id) =>
            /\ DOMAIN scheduled_orders' =
                   { sid \in DOMAIN scheduled_orders :
                       scheduled_orders[sid].contract_id # contract_id }
            /\ \A sid \in DOMAIN scheduled_orders' :
                   scheduled_orders'[sid] = scheduled_orders[sid]
            /\ (\A sid \in DOMAIN scheduled_orders :
                    scheduled_orders[sid].contract_id # contract_id)
                   => scheduled_orders' = scheduled_orders ]_vars

\* the latest call is a cancel that removed orders; two orders have been cancelled
\* and an order, of another contract, is still pending
C16_Witness ==
    /\ last_call = Call("cancel_scheduled_trade", "cancelled")
    /\ Cardinality(cancelled_orders) = 2
    /\ DOMAIN scheduled_orders # {}

\* C17: stopping the sweep completes cleanly, stop_scheduler_loop returning to
\* its caller, and removes no order: scheduled_orders, the handovers made and the
\* execute_trade tasks are as they were before the stop.
C17_StopCompletesCleanlyAndKeepsOrders ==
    [][ StopSchedulerLoop =>
            /\ last_call' = Call("stop_scheduler_loop", "returned")
            /\ UNCHANGED << scheduled_orders, handovers, execution_tasks >> ]_vars

\* C18: after check_daily_loss has seen a PnL at or below -abs(current_max_daily_loss),
\* the limit being the one recomputed for that PnL, cooldown_active is true; and an
\* active cooldown stays active under every update whose PnL does not exceed
\* -abs(max_initial_daily_loss) * 0.5.
C18_BreachActivatesCooldownUntilRecovery ==
    [][ \A pnl \in PnlValues :
          CheckDailyLoss(Some(pnl)) =>
            LET before == Val(risk_manager)
                after == Val(risk_manager')
            IN  /\ pnl <= 0 - Abs(after.current_max_daily_loss) => after.cooldown_active
                /\ ( /\ before.cooldown_active
                     /\ ~(2 * pnl > 0 - Abs(before.max_initial_daily_loss)) )
                       => after.cooldown_active ]_vars

\* the cooldown is active although the latest PnL seen is above the loss limit: it
\* was kept by an update that neither breached nor recovered
C18_Witness ==
    /\ risk_manager # None
    /\ last_call = Call("check_daily_loss", "checked")
    /\ Val(risk_manager).cooldown_active
    /\ Val(risk_manager).current_pnl > 0 - Abs(Val(risk_manager).max_initial_daily_loss)

\* C19: check_daily_loss clears an active cooldown exactly when the PnL exceeds
\* -abs(max_initial_daily_loss) * 0.5; for a PnL above -abs(max_initial_daily_loss)
\* and not above half of it the flag keeps the value it had.
C19_CooldownClearedExactlyOnRecovery ==
    [][ \A pnl \in PnlValues :
          CheckDailyLoss(Some(pnl)) =>
            LET before == Val(risk_manager)
                after == Val(risk_manager')
                limit == Abs(before.max_initial_daily_loss)
            IN  /\ before.cooldown_active =>
                       (~after.cooldown_active <=> 2 * pnl > 0 - limit)
                /\ (0 - limit < pnl /\ 2 * pnl <= 0 - limit) =>
                       after.cooldown_active = before.cooldown_active ]_vars

\* a breach has been reported and the cooldown is off again while the PnL is
\* still a loss: an update above half the limit cleared it
C19_Witness ==
    /\ risk_manager # None
    /\ last_call = Call("check_daily_loss", "recovered")
    /\ breach_events > 0
    /\ ~Val(risk_manager).cooldown_active
    /\ Val(risk_manager).current_pnl < 0

\* the PnL the Risk Manager saw last is at or below its breach threshold
LastPnlBreached ==
    LimitBreached(Val(risk_manager).max_initial_daily_loss, Val(risk_manager).current_pnl)

\* C20: in a run of consecutive check_daily_loss calls whose PnL stays at or below
\* the breach threshold, the breach event (warning, "RISK BREACH" notification,
\* disable_trading request) is emitted exactly once, by the first call of the run;
\* the later calls of the run change no state and emit nothing.
C20_BreachEventOncePerRun ==
    [][ \A pnl \in PnlValues :
          ( /\ CheckDailyLoss(Some(pnl))
            /\ LimitBreached(Val(risk_manager).max_initial_daily_loss, pnl) ) =>
              IF ~LastPnlBreached
              THEN breach_events' = breach_events + 1
              ELSE breach_events' = breach_events /\ risk_manager' = risk_manager ]_vars

\* C20, amended: the first call of such a run emits the breach event once if the
\* cooldown was inactive when the run began and not at all if it was already
\* active; the later calls of the run emit nothing and change no state but
\* current_pnl.
C20_BreachEventOnTransitionOnly ==
    [][ \A pnl \in PnlValues :
          ( /\ CheckDailyLoss(Some(pnl))
            /\ LimitBreached(Val(risk_manager).max_initial_daily_loss, pnl) ) =>
              LET before == Val(risk_manager)
              IN  /\ Val(risk_manager').cooldown_active
                  /\ IF ~LastPnlBreached
                     THEN breach_events' =
                              breach_events + (IF before.cooldown_active THEN 0 ELSE 1)
                     ELSE /\ breach_events' = breach_events
                          /\ risk_manager' = Some([ before EXCEPT !.current_pnl = pnl ]) ]_vars

\* the latest check saw a PnL below the loss limit with the cooldown already
\* active, and the breach has been reported once
C20_Witness ==
    /\ risk_manager # None
    /\ last_call = Call("check_daily_loss", "in_breach")
    /\ breach_events = 1
    /\ Val(risk_manager).cooldown_active
    /\ Val(risk_manager).current_pnl < 0 - Abs(Val(risk_manager).max_initial_daily_loss)

\* C21: validate_trade_eligibility returns True if and only if the cooldown is
\* inactive and the margin requirement for the contract and the size does not
\* exceed the available balance; every rejection leaves a non-empty
\* rejection_reason on the signal; and the call never changes current_pnl,
\* current_max_daily_loss or cooldown_active.
C21_ValidateTradeAllowsIffCooldownOffAndMarginCovered ==
    [][ \A trade_signal \in ScheduledSignals, size \in Sizes :
          ValidateTradeEligibilityCall(trade_signal, size) =>
            LET balance == IF current_equity = None THEN 0 ELSE Val(current_equity)
                margin == IF trade_signal.contract_id = "ES"
                          THEN size * MarginPerContract ELSE size * GenericMargin
                answer == last_call'.result
            IN  /\ answer.allowed <=>
                       (~Val(risk_manager).cooldown_active /\ margin <= balance)
                /\ ~answer.allowed =>
                       /\ answer.rejection_reason # None
                       /\ Val(answer.rejection_reason) # ""
                /\ risk_manager' = risk_manager ]_vars

\* the latest validation rejected a trade for its margin alone: the cooldown is
\* off and the account has a balance
C21_Witness ==
    /\ last_call.op = "validate_trade_eligibility"
    /\ ~last_call.result.allowed
    /\ ~Val(risk_manager).cooldown_active
    /\ GetAccountBalance > 0

\* C22: calculate_contract_size returns 0 if and only if the equity is unknown or
\* not positive; for a positive equity it returns
\* max(1, floor(floor(equity / 10000) * max(confidence, 0.6))), which is at least 1
\* even when floor(equity / 10000) is 0.
C22_SizeZeroIffNoEquity ==
    last_call.op = "calculate_contract_size" =>
        LET equity == last_call.result.account_equity
            confidence == last_call.result.signal_confidence
            size == last_call.result.size
            effective == IF confidence >= 6 THEN confidence ELSE 6
        IN  /\ size = 0 <=> (equity = None \/ Val(equity) <= 0)
            /\ (equity # None /\ Val(equity) > 0) =>
                   LET product == ((Val(equity) \div 10000) * effective) \div 10
                   IN  /\ size = (IF product >= 1 THEN product ELSE 1)
                       /\ size >= 1

\* a positive equity below 10000 has been sized: one contract
C22_Witness ==
    /\ last_call.op = "calculate_contract_size"
    /\ last_call.result.account_equity = Some(5000)
    /\ last_call.result.size = 1

\* C23: calculate_contract_size(account_equity=25000, signal_confidence=0.5)
\* returns 2.
C23_SizeOf25000AtHalfConfidenceIsTwo ==
    ( /\ last_call.op = "calculate_contract_size"
      /\ last_call.result.account_equity = Some(25000)
      /\ last_call.result.signal_confidence = 5 )
        => last_call.result.size = 2

\* C23, amended: calculate_contract_size(account_equity=25000,
\* signal_confidence=0.5) returns 1: the base is 2, the effective confidence 0.6,
\* and floor(1.2) is 1.
C23_SizeOf25000AtHalfConfidenceIsOne ==
    ( /\ last_call.op = "calculate_contract_size"
      /\ last_call.result.account_equity = Some(25000)
      /\ last_call.result.signal_confidence = 5 )
        => last_call.result.size = 1

\* an equity of 25000 has been sized at a confidence of 0.5
C23_Witness ==
    /\ last_call.op = "calculate_contract_size"
    /\ last_call.result.account_equity = Some(25000)
    /\ last_call.result.signal_confidence = 5

\* C24: after check_daily_loss has seen a PnL, current_max_daily_loss is
\* max(max_initial_daily_loss, pnl * 0.3) if the PnL is positive and
\* max_initial_daily_loss otherwise: it is a function of the initial limit and the
\* latest PnL alone, whatever limit and PnL the earlier updates left.
C24_TrailingLimitFromLatestPnlOnly ==
    [][ \A pnl \in PnlValues :
          CheckDailyLoss(Some(pnl)) =>
            LET after == Val(risk_manager')
                initial == Val(risk_manager).max_initial_daily_loss
                share == (3 * pnl) \div 10
            IN  /\ after.max_initial_daily_loss = initial
                /\ after.current_pnl = pnl
                /\ after.current_max_daily_loss =
                       IF pnl > 0
                       THEN (IF share >= initial THEN share ELSE initial)
                       ELSE initial ]_vars

\* the latest update saw a gain large enough to lift the limit above the initial
\* one
C24_Witness ==
    /\ risk_manager # None
    /\ last_call.op = "check_daily_loss"
    /\ Val(risk_manager).current_pnl > 0
    /\ Val(risk_manager).current_max_daily_loss > Val(risk_manager).max_initial_daily_loss

C26_RejectedSignalLeavesCooldownAlone ==
    [][ /\ ( /\ last_call'.op = "evaluate_signal"
             /\ last_call'.result.consulted # "none"
             /\ ~last_call'.result.raised
             /\ \/ last_call'.result.finding.kind = "none"
                \/ last_call'.result.finding.confidence < 85 )
               => /\ last_call'.result.signal = None
                  /\ last_signal_time' = last_signal_time
        /\ (last_signal_time' # last_signal_time /\ last_signal_time' # None)
               => /\ last_call'.op = "evaluate_signal"
                  /\ last_call'.result.signal # None
                  /\ last_signal_time' = Some(last_call'.result.current_time) ]_vars

\* a signal below the threshold was discarded by an evaluation made after the
\* cooldown had run out, and the earlier accepted time still stands
C26_Witness ==
    /\ last_call.op = "evaluate_signal"
    /\ last_call.result.finding.kind = "signal"
    /\ last_call.result.signal = None
    /\ last_signal_time # None
    /\ last_call.result.current_time - Val(last_signal_time) >= 60

\* C27: an exception raised inside the analyze of a strategy during an evaluation
\* does not leave the strategy manager: the evaluation returns no signal. For the
\* manager of strategy.py, whose cycle goes on to the strategies after the failing
\* one, the exception does not leave evaluate.
C27_AnalyzeExceptionStaysInsideManager ==
    /\ (last_call.op = "evaluate_signal" /\ last_call.result.analyze_raised)
           => (~last_call.result.raised /\ last_call.result.signal = None)
    /\ (last_call.op = "evaluate" /\ last_call.result.caught # {})
           => ~last_call.result.raised

\* C28: after any sequence of _update_bars calls, for each of the intervals of 1, 5
\* and 15 minutes the closed bars are strictly increasing in their start time, are
\* at most 200, and all start before the open bar, which is never among them.
C28_HistoryOrderedBoundedWithoutCurrent ==
    \A interval \in Intervals :
        LET history == bars[interval]
        IN  /\ \A i, j \in 1 .. Len(history) : i < j => history[i].t < history[j].t
            /\ Len(history) <= 200
            /\ current_bar[interval] # None =>
                   \A i \in 1 .. Len(history) : history[i].t < Val(current_bar[interval]).t

\* C29: an _update_bars whose timestamp lies in an interval older than the open
\* bar's neither closes the open bar nor opens another: the closed bars stay as
\* they are and the open bar keeps its start and open, takes the larger high, the
\* smaller low, the price as close and the size added to its volume.
C29_OlderTimestampFoldedIntoCurrentBar ==
    [][ last_call'.op = "_update_bars" =>
          \A interval \in Intervals :
              LET trade == last_call'.result
                  interval_start == (trade.timestamp \div (60 * interval)) * (60 * interval)
                  bar == Val(current_bar[interval])
              IN  (current_bar[interval] # None /\ interval_start < bar.t) =>
                      /\ bars'[interval] = bars[interval]
                      /\ current_bar'[interval] =
                             Some([ t |-> bar.t,
                                    o |-> bar.o,
                                    h |-> IF trade.price > bar.h THEN trade.price ELSE bar.h,
                                    l |-> IF trade.price < bar.l THEN trade.price ELSE bar.l,
                                    c |-> trade.price,
                                    v |-> bar.v + trade.size ]) ]_vars

\* C30: at every step of the loop of get_value_areas at which a level remains
\* below the area and a level remains above it, the area takes the next lower
\* level if the volumes of the two neighbours are equal, and the neighbour of the
\* larger volume if they differ.
C30_TieExtendsLowerSideFirst ==
    last_call.op = "get_value_areas" =>
        LET appended == last_call.result.appended
        IN  \A k \in 2 .. Len(appended) :
                LET area == { appended[i] : i \in 1 .. k - 1 }
                    lower == { l \in Levels : \A a \in area : l < a }
                    higher == { l \in Levels : \A a \in area : l > a }
                IN  (lower # {} /\ higher # {}) =>
                        LET next_low == CHOOSE l \in lower : \A m \in lower : m <= l
                            next_high == CHOOSE l \in higher : \A m \in higher : l <= m
                        IN  /\ VolumeAt(next_low) = VolumeAt(next_high)
                                => appended[k] = next_low
                            /\ VolumeAt(next_low) > VolumeAt(next_high)
                                => appended[k] = next_low
                            /\ VolumeAt(next_low) < VolumeAt(next_high)
                                => appended[k] = next_high

\* a value area was read whose point of control had a level on either side, the
\* two of equal volume, and the loop went on from it
C30_Witness ==
    /\ last_call.op = "get_value_areas"
    /\ Len(last_call.result.appended) >= 2
    /\ LET poc == last_call.result.appended[1]
           lower == { l \in Levels : l < poc }
           higher == { l \in Levels : l > poc }
       IN  /\ lower # {}
           /\ higher # {}
           /\ VolumeAt(CHOOSE l \in lower : \A m \in lower : m <= l) =
                  VolumeAt(CHOOSE l \in higher : \A m \in higher : l <= m)

\* the volume the profile holds at the levels of a sequence of levels
RECURSIVE VolumeOf(_)
VolumeOf(levels) ==
    IF levels = << >> THEN 0
    ELSE VolumeAt(Head(levels)) + VolumeOf(Tail(levels))

UpdateOrders ==
    { items \in [ 1 .. Len(profile) -> { profile[i] : i \in 1 .. Len(profile) } ] :
          \A i, j \in 1 .. Len(profile) : items[i] = items[j] => i = j }

\* the levels get_value_areas returns when its loop starts from the level poc
ValueAreaAround(poc, value_area_percentage) ==
    LET levels_to_check == SortedLevels(Levels)
        poc_index == CHOOSE i \in 1 .. Len(levels_to_check) : levels_to_check[i] = poc
        appended == Expand(levels_to_check, poc_index, poc_index, VolumeAt(poc),
                           << poc >>, value_area_percentage)
    IN  { appended[i] : i \in 1 .. Len(appended) }

\* C39: the point of control and the value area read from a profile are those
\* read from every profile that holds the same volume at every level, whatever
\* the order in which the levels were first updated.
C39_ValueAreaIndependentOfUpdateOrder ==
    (last_call.op = "get_value_areas" /\ profile # << >>) =>
        LET result == last_call.result
            area == { result.value_area[i][1] : i \in 1 .. Len(result.value_area) }
        IN  \A items \in UpdateOrders :
                /\ PocLevelOf(items) = result.appended[1]
                /\ ValueAreaAround(PocLevelOf(items), result.value_area_percentage) = area

\* C36: a daily-loss check made while the account manager holds no PnL leaves
\* the current PnL, the current loss limit and the cooldown of the Risk Manager
\* as they were, and emits no breach event.
C36_UnknownPnlLeavesRiskStateAlone ==
    [][ CheckDailyLossOfAccount(None) => UNCHANGED << risk_manager, breach_events >> ]_vars

\* C37: a daily-loss check that fetched a PnL while the cooldown was inactive
\* activates the cooldown if and only if the PnL is at or below minus the
\* absolute value of the initial loss limit, whatever limit earlier gains left.
C37_BreachAtInitialLimitOnly ==
    [][ ( /\ last_call'.op = "check_daily_loss"
          /\ last_call'.result # "skipped"
          /\ ~Val(risk_manager).cooldown_active )
        => ( Val(risk_manager').cooldown_active
               <=> Val(risk_manager').current_pnl
                       <= 0 - Abs(Val(risk_manager).max_initial_daily_loss) ) ]_vars

\* a check has just activated the cooldown at a PnL equal to minus the absolute
\* value of the initial limit
C37_Witness ==
    /\ last_call = Call("check_daily_loss", "breach")
    /\ Val(risk_manager).cooldown_active
    /\ Val(risk_manager).current_pnl = 0 - Abs(Val(risk_manager).max_initial_daily_loss)

\* C32: an empty trade payload, a trade payload none of whose trades carries a
\* price, an empty quote payload and an empty depth payload each leave the tick
\* buffer, the quotes, the depth levels, the open bars and the closed bars as
\* they were.
C32_InvalidMarketDataIsDropped ==
    [][ ( \/ last_call' \in { Call("process_trade", "empty"),
                              Call("process_trade", "no price") }
          \/ last_call' = Call("process_quote", "empty")
          \/ last_call' = Call("process_depth", "empty") )
        => UNCHANGED << trades, quotes, depth, current_bar, bars >> ]_vars

\* C35: a simulated entry made for a signal that carries stop_loss_ticks and
\* take_profit_ticks sets its stop that many ticks against the direction from the
\* entry price and its target that many ticks with it; with positive ticks a long
\* has stop < entry < target and a short target < entry < stop.
C35_SimulatedStopAndTargetFromSignalTicks ==
    [][ \A sig \in TradeSignals :
            ( /\ sig.stop_loss_ticks # None
              /\ sig.take_profit_ticks # None
              /\ \E size \in Sizes, utcnow \in UtcNow :
                     \E q \in SnapshotsRead(SimSignalFields(sig)) :
                         InitiateSimulatedTrade(SimSignalFields(sig), size, q, utcnow) )
            => LET trade == Val(active_simulated_trade')
                   sl == Val(sig.stop_loss_ticks) * tick_size
                   tp == Val(sig.take_profit_ticks) * tick_size
               IN  /\ sig.direction = BUY
                          => /\ trade.stop_price = trade.entry_price - sl
                             /\ trade.target_price = trade.entry_price + tp
                   /\ sig.direction = SELL
                          => /\ trade.stop_price = trade.entry_price + sl
                             /\ trade.target_price = trade.entry_price - tp
                   /\ (sig.direction = BUY /\ sl > 0 /\ tp > 0)
                          => /\ trade.stop_price < trade.entry_price
                             /\ trade.entry_price < trade.target_price
                   /\ (sig.direction = SELL /\ sl > 0 /\ tp > 0)
                          => /\ trade.target_price < trade.entry_price
                             /\ trade.entry_price < trade.stop_price ]_vars

LiveStage(status) ==
    CASE status = "PENDING_ENTRY_FILL" -> 1
      [] status \in { "OPEN", "PARTIAL_FILL" } -> 2
      [] status = "CLOSING_PENDING" -> 3
      [] status \in { "CLOSING_ORDER_SENT", "EXIT_ORDER_FAILED" } -> 4
      [] OTHER -> 0

\* C33: a tracked live trade starts as PENDING_ENTRY_FILL, and whenever its
\* status changes it stays in its stage (PARTIAL_FILL to OPEN) or moves to the
\* next one of PENDING_ENTRY_FILL, OPEN/PARTIAL_FILL, CLOSING_PENDING,
\* CLOSING_ORDER_SENT or EXIT_ORDER_FAILED; it never leaves the last stage.
C33_LiveStatusFollowsLifeCycle ==
    [][ active_live_trade_tracking' # None =>
          LET after == Val(active_live_trade_tracking')
          IN  IF /\ active_live_trade_tracking # None
                 /\ Val(active_live_trade_tracking).entry_order_id = after.entry_order_id
              THEN LET before == Val(active_live_trade_tracking)
                   IN  before.status # after.status
                           => /\ LiveStage(before.status) \in 1 .. 3
                              /\ LiveStage(after.status) \in
                                     { LiveStage(before.status), LiveStage(before.status) + 1 }
              ELSE after.status = "PENDING_ENTRY_FILL" ]_vars

\* C38: when a close order is answered while the engine tracks another live trade
\* than the one whose SL/TP trigger issued it, the status, the exit order id and
\* the exit reason of the tracked trade stay as they were.
C38_CloseOrderOutcomeLeavesOtherTradeAlone ==
    [][ \A task \in exit_tasks :
            ( /\ task.stage = "sent"
              /\ exit_tasks' = exit_tasks \ { task }
              /\ active_live_trade_tracking # None
              /\ Val(active_live_trade_tracking).entry_order_id # task.trade )
            => /\ active_live_trade_tracking' # None
               /\ Val(active_live_trade_tracking').status =
                      Val(active_live_trade_tracking).status
               /\ Val(active_live_trade_tracking').exit_order_id =
                      Val(active_live_trade_tracking).exit_order_id
               /\ Val(active_live_trade_tracking').exit_reason =
                      Val(active_live_trade_tracking).exit_reason ]_vars

\* C40: the accumulated simulated PnL is the sum of the pnl of the simulated
\* trade records produced since the last simulated reset, step by step: the total
\* moves only by the pnl of a record appended to the pending records in the same
\* step, or to zero with the pending records discarded, and a pending record
\* leaves the buffer only when the whole buffer is handed out or reset.
C40_SimulatedPnlIsSumOfRecords ==
    [][ /\ \/ /\ total_simulated_pnl' = total_simulated_pnl
              /\ pending_sim_log_updates' = pending_sim_log_updates
           \/ /\ Len(pending_sim_log_updates') = Len(pending_sim_log_updates) + 1
              /\ SubSeq(pending_sim_log_updates', 1, Len(pending_sim_log_updates)) =
                     pending_sim_log_updates
              /\ total_simulated_pnl' = total_simulated_pnl
                     + pending_sim_log_updates'[Len(pending_sim_log_updates')].pnl
           \/ /\ pending_sim_log_updates' = << >>
              /\ total_simulated_pnl' \in { total_simulated_pnl, 0 } ]_vars

====
